---- MODULE Spec2Model ----
(***************************************************************************)
(* State-machine model of the IELTS HTML -> JSON ingest pipeline:          *)
(*   develop/scripts/ingest/datamodel.py        (Exam.validate_consistency)*)
(*   develop/scripts/ingest/html_exam_parser.py (parse_exam, payload)      *)
(*   develop/scripts/ingest/audit_conversion.py (load / audit)             *)
(*   develop/html_to_json/answer_parser.py      (answer-key extraction)    *)
(*                                                                         *)
(* Text that the code inspects character by character (ids, prompts,       *)
(* answers) is a sequence of one-character strings; text the code only     *)
(* copies or compares is an opaque string.  An optional field is <<>> for  *)
(* None and <<v>> for a value.                                             *)
(***************************************************************************)
EXTENDS Integers, Sequences, FiniteSets, TLC

VARIABLES
    pc,        \* position of the pipeline: "idle", "validated", "parsed", ...
    htmlFile,  \* the HTML page handed to parse_exam / audit (NoPage if none)
    jsonFile,  \* the persisted JSON payload (NoFile if none)
    exam,      \* the Exam object in memory (NoExam if none)
    res,       \* outcome of the last operation
    warned,    \* a RuntimeWarning was emitted by validate_consistency
    diff,      \* the diff carried by the last AuditError
    script,    \* page source handed to extract_answer_data (NoPage if none)
    extracted, \* result of extract_answer_data
    groupNode,       \* the group node handed to _parse_group
    groupQuestions,  \* the questions _parse_group returned for it
    builder,   \* the DOM builder class fed with events
    stack,     \* its open-element stack: node ids, the root first
    nodes,     \* the nodes created so far: tag and parent of each id
    event,     \* the parser events handled so far, in order
    config,      \* RunnerConfig of the batch runner
    outcomes,    \* per task, whether its k-th execution succeeds
    batch_index, \* the batch being processed (0 before the first)
    worker,      \* per task, the position of its worker coroutine
    attempts,    \* Task.attempts
    tracker,     \* ProgressTracker: completed, failures, retries
    exit_code,   \* exit code of the process (<<>> while it runs)
    tool,        \* the sweeping entry point that runs
    html_files,  \* the collected HTML files, with what processing each does
    cursor,      \* files the sweep loop has gone through
    failures,    \* the failures list of the sweep
    processed,   \* the files whose processing was started, in order
    jsText,      \* the script text handed to the scanner or the object reader
    jsResult,    \* what the scanner or the reader made of it
    output_dir,     \* the files of the output directory of serialize_exams
    serializeCall,  \* the arguments of the last call of serialize_exams
    serialization,  \* what that call returned or raised
    serializeRuns,  \* calls of serialize_exams made so far
    passageParser,  \* the module whose passage extraction ran
    leftContents,   \* the children of the passage container after the title
    passageParagraphs, \* the paragraphs extracted from them
    payloadFile,    \* the JSON file repair_file works on
    repairChanged,  \* what the last repair_file returned
    repairs         \* runs of repair_file made so far

pipelineVars == <<htmlFile, jsonFile, exam, res, warned, diff, script, extracted>>
groupVars == <<groupNode, groupQuestions>>
domVars == <<builder, stack, nodes, event>>
runnerVars == <<config, outcomes, batch_index, worker, attempts, tracker>>
sweepVars == <<tool, html_files, cursor, failures, processed>>
scanVars == <<jsText, jsResult>>
serializeVars == <<output_dir, serializeCall, serialization, serializeRuns>>
passageVars == <<passageParser, leftContents, passageParagraphs>>
repairVars == <<payloadFile, repairChanged, repairs>>
toolVars == <<scanVars, serializeVars, passageVars, repairVars>>
vars == <<pc, pipelineVars, groupVars, domVars, runnerVars, sweepVars, toolVars, exit_code>>
otherVars == <<groupVars, domVars, runnerVars, sweepVars, toolVars, exit_code>>

(***************************************************************************)
(* Bounds                                                                  *)
(***************************************************************************)
MaxQ == 2        \* questions in a hand-built Exam
MaxItems == 2    \* question items in the group of a page
MaxLen == 3      \* length of the enumerated answer strings
MaxEvents == 3   \* parser events fed to a DOM builder
MaxRetries == 2  \* largest max_retries a runner configuration sets
MaxTasks == 11   \* files of the largest workload of the batch runner
MaxFiles == 3    \* HTML files under the root a sweep is given
MaxScan == 4     \* characters of the free part of a script text
MaxExams == 2    \* exams handed to one call of serialize_exams
MaxRuns == 2     \* runs of serialize_exams or repair_file on the same files
MaxPayload == 2  \* questions of a payload repair_file reads
MaxBlocks == 3   \* children of the passage container after its title

NoPage == [none |-> "page"]
NoFile == [none |-> "file"]
NoExam == [none |-> "exam"]
NoDiff == <<>>

(***************************************************************************)
(* Characters and strings                                                  *)
(***************************************************************************)
Str(s) == [text |-> s]   \* marks a Python str inside a value that may also be a list

LowerLetters == <<"a","b","c","d","e","f","g","h","i","j","k","l","m",
                  "n","o","p","q","r","s","t","u","v","w","x","y","z">>
UpperLetters == <<"A","B","C","D","E","F","G","H","I","J","K","L","M",
                  "N","O","P","Q","R","S","T","U","V","W","X","Y","Z">>
Digits == <<"0","1","2","3","4","5","6","7","8","9">>

IsLower(c) == \E i \in 1..26 : LowerLetters[i] = c
IsUpper(c) == \E i \in 1..26 : UpperLetters[i] = c
IsLetter(c) == IsLower(c) \/ IsUpper(c)
IsDigit(c) == \E i \in 1..10 : Digits[i] = c
IsSpace(c) == c \in {" ", "\n", "\t"}

UpperChar(c) ==
    IF IsLower(c) THEN UpperLetters[CHOOSE i \in 1..26 : LowerLetters[i] = c] ELSE c
LowerChar(c) ==
    IF IsUpper(c) THEN LowerLetters[CHOOSE i \in 1..26 : UpperLetters[i] = c] ELSE c

\* str.upper() / str.lower()
Upper(s) == [i \in 1..Len(s) |-> UpperChar(s[i])]
Lower(s) == [i \in 1..Len(s) |-> LowerChar(s[i])]

RECURSIVE LStrip(_)
LStrip(s) == IF s # <<>> /\ IsSpace(Head(s)) THEN LStrip(Tail(s)) ELSE s
RECURSIVE RStrip(_)
RStrip(s) ==
    IF s # <<>> /\ IsSpace(s[Len(s)]) THEN RStrip(SubSeq(s, 1, Len(s) - 1)) ELSE s
\* str.strip()
Strip(s) == RStrip(LStrip(s))

\* str.isdigit(): non-empty and every character a digit
IsDigitStr(s) == s # <<>> /\ \A i \in 1..Len(s) : IsDigit(s[i])

(***************************************************************************)
(* datamodel.py                                                            *)
(***************************************************************************)
DifficultyLevel == {"P1", "P2", "P3"}
DifficultyValue(d) == CASE d = "P1" -> 1 [] d = "P2" -> 2 [] d = "P3" -> 3

\* QuestionType: member name -> value
QuestionTypeValue(t) ==
    CASE t = "TRUE_FALSE_NG" -> "true-false-ng"
      [] t = "YES_NO_NG" -> "yes-no-ng"
      [] t = "MULTIPLE_CHOICE_SINGLE" -> "multiple-choice-single"
      [] t = "MULTIPLE_CHOICE_MULTIPLE" -> "multiple-choice-multiple"
      [] t = "SENTENCE_COMPLETION" -> "sentence-completion"
      [] t = "SUMMARY_COMPLETION" -> "summary-completion"
      [] t = "NOTES_COMPLETION" -> "notes-completion"
      [] t = "TABLE_COMPLETION" -> "table-completion"
      [] t = "SHORT_ANSWER" -> "short-answer"
      [] t = "PARAGRAPH_MATCHING" -> "paragraph-matching"
      [] t = "HEADING_MATCHING" -> "heading-matching"
      [] t = "FEATURE_MATCHING" -> "feature-matching"
      [] t = "STATEMENT_MATCHING" -> "statement-matching"
      [] t = "SENTENCE_ENDING_MATCHING" -> "sentence-ending-matching"
      [] t = "CLASSIFICATION" -> "classification"
QuestionType ==
    {"TRUE_FALSE_NG", "YES_NO_NG", "MULTIPLE_CHOICE_SINGLE", "MULTIPLE_CHOICE_MULTIPLE",
     "SENTENCE_COMPLETION", "SUMMARY_COMPLETION", "NOTES_COMPLETION", "TABLE_COMPLETION",
     "SHORT_ANSWER", "PARAGRAPH_MATCHING", "HEADING_MATCHING", "FEATURE_MATCHING",
     "STATEMENT_MATCHING", "SENTENCE_ENDING_MATCHING", "CLASSIFICATION"}

Paragraph(content, label) == [content |-> content, label |-> label]
Passage(title, paragraphs) == [title |-> title, paragraphs |-> paragraphs]
Question(number, type, instruction, content, answer, explanation, group, occupies, reuse) ==
    [questionNumber |-> number, type |-> type, instruction |-> instruction,
     content |-> content, answer |-> answer, explanation |-> explanation,
     checkboxGroupName |-> group, occupiesQuestions |-> occupies, canReuse |-> reuse]
Metadata(difficulty, total, types) ==
    [difficulty |-> difficulty, totalQuestions |-> total, questionTypes |-> types]
Exam(id, passage, questions, metadata) ==
    [id |-> id, passage |-> passage, questions |-> questions, metadata |-> metadata]

\* list(dict.fromkeys(xs)): first-seen order, duplicates removed
RECURSIVE DictFromKeys(_)
DictFromKeys(xs) ==
    IF xs = <<>> THEN <<>>
    ELSE LET init == DictFromKeys(SubSeq(xs, 1, Len(xs) - 1))
             last == xs[Len(xs)]
         IN IF \E i \in 1..Len(init) : init[i] = last THEN init ELSE Append(init, last)

QuestionNumbers(questions) == [i \in 1..Len(questions) |-> questions[i].questionNumber]
QuestionTypes(questions) == [i \in 1..Len(questions) |-> questions[i].type]

expected_start(difficulty) ==
    CASE difficulty = "P1" -> 1 [] difficulty = "P2" -> 14 [] difficulty = "P3" -> 27
\* allowed_end with every ceiling one too low
allowed_end_one_short(difficulty) ==
    CASE difficulty = "P1" -> 13 [] difficulty = "P2" -> 26 [] difficulty = "P3" -> 39
allowed_end(difficulty) ==
    CASE difficulty = "P1" -> 14 [] difficulty = "P2" -> 27 [] difficulty = "P3" -> 40

Verdict(error, warning) == [error |-> error, warning |-> warning]

\* validate_consistency without the totalQuestions comparison
validate_consistency_count_unchecked(e) ==
    LET numbers == QuestionNumbers(e.questions)
        normalized_types == QuestionTypes(e.questions)
    IN  IF Len(e.id) = 0 \/ Head(e.id) # "e" \/ Len(e.id) # 4 \/ ~IsDigitStr(Tail(e.id))
        THEN Verdict("id", FALSE)
        ELSE IF DictFromKeys(normalized_types) # e.metadata.questionTypes
        THEN Verdict("questionTypes", FALSE)
        ELSE IF numbers = <<>>
        THEN Verdict("empty", FALSE)
        ELSE LET warning == numbers[1] # expected_start(e.metadata.difficulty)
                 expected == [idx \in 1..Len(numbers) |-> numbers[1] + (idx - 1)]
             IN  IF numbers # expected
                 THEN Verdict("contiguity", warning)
                 ELSE IF numbers[Len(numbers)] > allowed_end(e.metadata.difficulty)
                 THEN Verdict("ceiling", warning)
                 ELSE Verdict("", warning)

\* Exam.validate_consistency: the first failing check raises ValueError; the
\* start-offset check only warns.  error = "" means the call returned.
validate_consistency(e) ==
    LET numbers == QuestionNumbers(e.questions)
        normalized_types == QuestionTypes(e.questions)
    IN  IF Len(e.id) = 0 \/ Head(e.id) # "e" \/ Len(e.id) # 4 \/ ~IsDigitStr(Tail(e.id))
        THEN Verdict("id", FALSE)
        ELSE IF e.metadata.totalQuestions # Len(e.questions)
        THEN Verdict("totalQuestions", FALSE)
        ELSE IF DictFromKeys(normalized_types) # e.metadata.questionTypes
        THEN Verdict("questionTypes", FALSE)
        ELSE IF numbers = <<>>
        THEN Verdict("empty", FALSE)
        ELSE LET warning == numbers[1] # expected_start(e.metadata.difficulty)
                 expected == [idx \in 1..Len(numbers) |-> numbers[1] + (idx - 1)]
             IN  IF numbers # expected
                 THEN Verdict("contiguity", warning)
                 ELSE IF numbers[Len(numbers)] > allowed_end(e.metadata.difficulty)
                 THEN Verdict("ceiling", warning)
                 ELSE Verdict("", warning)

(***************************************************************************)
(* html_exam_parser.py: payload serializer                                 *)
(***************************************************************************)
IsStr(a) == DOMAIN a = {"text"}
IsList(a) == DOMAIN a = {"list"}
IsTuple(a) == DOMAIN a = {"tuple"}
List(items) == [list |-> items]
Items(a) == IF IsList(a) THEN a.list ELSE a.tuple

\* _serialize_answer: a str stays, any other sequence becomes a list
_serialize_answer(answer) == IF IsStr(answer) THEN answer ELSE List(Items(answer))

\* the optional keys of a question payload: present only when not None
OptionalKey(name, value) == IF value = <<>> THEN <<>> ELSE [k \in {name} |-> value[1]]

QuestionPayload(q) ==
    [questionNumber |-> q.questionNumber,
     type |-> QuestionTypeValue(q.type),
     instruction |-> q.instruction,
     content |-> q.content,
     answer |-> _serialize_answer(q.answer)]
    @@ OptionalKey("explanation", q.explanation)
    @@ OptionalKey("checkboxGroupName", q.checkboxGroupName)
    @@ OptionalKey("occupiesQuestions", q.occupiesQuestions)
    @@ OptionalKey("canReuse", q.canReuse)

exam_to_payload(e) ==
    [id |-> e.id,
     passage |-> [title |-> e.passage.title,
                  paragraphs |-> [i \in 1..Len(e.passage.paragraphs) |->
                      [label |-> e.passage.paragraphs[i].label,
                       content |-> e.passage.paragraphs[i].content]]],
     questions |-> [i \in 1..Len(e.questions) |-> QuestionPayload(e.questions[i])],
     metadata |-> [difficulty |-> DifficultyValue(e.metadata.difficulty),
                   totalQuestions |-> e.metadata.totalQuestions,
                   questionTypes |-> [i \in 1..Len(e.metadata.questionTypes) |->
                       QuestionTypeValue(e.metadata.questionTypes[i])]]]

(***************************************************************************)
(* audit_conversion.py: JSON loader                                        *)
(***************************************************************************)
IsQuestionTypeValue(v) == \E t \in QuestionType : QuestionTypeValue(t) = v
\* QuestionType(value)
QuestionTypeOf(v) == CHOOSE t \in QuestionType : QuestionTypeValue(t) = v
IsDifficultyValue(n) == n \in 1..3
\* DifficultyLevel(value)
DifficultyOf(n) == CHOOSE d \in DifficultyLevel : DifficultyValue(d) = n

\* decimal rendering of a natural number
RECURSIVE DecimalStr(_)
DecimalStr(n) ==
    IF n < 10 THEN <<Digits[n + 1]>> ELSE Append(DecimalStr(n \div 10), Digits[(n % 10) + 1])

\* str(x) of a JSON scalar: a string is itself, a number is rendered
IsNum(a) == DOMAIN a = {"num"}
PyStr(a) == IF IsNum(a) THEN Str(DecimalStr(a.num)) ELSE a

\* audit_conversion._normalize_answer
_normalize_answer_json(answer) ==
    IF IsList(answer)
    THEN List([i \in 1..Len(answer.list) |-> PyStr(answer.list[i])])
    ELSE PyStr(answer)

\* dict.get(key) that never finds the key
Get_never_found(d, key) == <<>>

\* dict.get(key): <<>> when the key is absent
Get(d, key) == IF key \in DOMAIN d THEN <<d[key]>> ELSE <<>>

\* _clone_content: a shallow copy, equal to its argument
_clone_content(content) == [k \in DOMAIN content |-> content[k]]

IsBlank(s) == Strip(s) = <<>>

\* _validate_answers_present: TRUE when AuditError is raised
_validate_answers_present(e) ==
    \E i \in 1..Len(e.questions) :
        LET value == e.questions[i].answer
        IN  IF IsStr(value)
            THEN IsBlank(value.text)
            ELSE \/ Items(value) = <<>>
                 \/ \E j \in 1..Len(Items(value)) : IsBlank(PyStr(Items(value)[j]).text)

Loaded(e, error) == [exam |-> e, error |-> error]

\* load_exam_from_json: builds the Exam, then validate_consistency, then
\* _validate_answers_present.  error = "" means the Exam was returned.
load_exam_from_json(data) ==
    IF \E i \in 1..Len(data.questions) : ~IsQuestionTypeValue(data.questions[i].type)
    THEN Loaded(NoExam, "ValueError")
    ELSE IF ~IsDifficultyValue(data.metadata.difficulty)
            \/ \E i \in 1..Len(data.metadata.questionTypes) :
                   ~IsQuestionTypeValue(data.metadata.questionTypes[i])
    THEN Loaded(NoExam, "ValueError")
    ELSE
    LET paragraphs == [i \in 1..Len(data.passage.paragraphs) |->
                          Paragraph(data.passage.paragraphs[i].content,
                                    data.passage.paragraphs[i].label)]
        passage == Passage(data.passage.title, paragraphs)
        questions == [i \in 1..Len(data.questions) |->
            LET qd == data.questions[i]
            IN  Question(qd.questionNumber, QuestionTypeOf(qd.type), qd.instruction,
                         _clone_content(qd.content), _normalize_answer_json(qd.answer),
                         Get(qd, "explanation"), Get(qd, "checkboxGroupName"),
                         Get(qd, "occupiesQuestions"), Get(qd, "canReuse"))]
        metadata == Metadata(DifficultyOf(data.metadata.difficulty),
                             data.metadata.totalQuestions,
                             [i \in 1..Len(data.metadata.questionTypes) |->
                                 QuestionTypeOf(data.metadata.questionTypes[i])])
        e == Exam(data.id, passage, questions, metadata)
    IN  IF validate_consistency(e).error # "" THEN Loaded(NoExam, "ValueError")
        ELSE IF _validate_answers_present(e) THEN Loaded(NoExam, "AuditError")
        ELSE Loaded(e, "")

(***************************************************************************)
(* Inputs: hand-built Exams                                                *)
(***************************************************************************)
Chars(word) == word   \* a word is written as a tuple of characters

IdSamples == { <<"e","0","0","1">>, <<"e","0","1">>, <<"x","0","0","1">>, <<"e","0","a","1">> }
FirstNumbers == {1, 2, 14, 27, 40}
Steps == {-1, 0, 1, 2}
SampleTypes == {"TRUE_FALSE_NG", "MULTIPLE_CHOICE_SINGLE"}

RECURSIVE NumberLists(_)
NumberLists(n) ==
    IF n = 0 THEN {<<>>}
    ELSE IF n = 1 THEN {<<f>> : f \in FirstNumbers}
    ELSE {Append(s, s[Len(s)] + d) : s \in NumberLists(n - 1), d \in Steps} \cap Seq(Nat \ {0})

SamplePassage == Passage("Sample Title", <<Paragraph("Paragraph content.", <<>>),
                                           Paragraph("Second paragraph.", <<"B">>)>>)
ChoiceOption(label, text) == [label |-> label, text |-> text]
T_TRUE == <<"T","R","U","E">>
T_FALSE == <<"F","A","L","S","E">>
T_NOT_GIVEN == <<"N","O","T"," ","G","I","V","E","N">>
T_YES == <<"Y","E","S">>
T_NO == <<"N","O">>
OptionsABC == <<ChoiceOption(<<"A">>, <<"P","a","r","i","s">>), ChoiceOption(<<"B">>, <<"R","o","m","e">>),
                ChoiceOption(<<"C">>, <<"O","s","l","o">>)>>
OptionsTFNG == <<ChoiceOption(T_TRUE, T_TRUE), ChoiceOption(T_FALSE, T_FALSE),
                 ChoiceOption(T_NOT_GIVEN, T_NOT_GIVEN)>>
OptionsYNNG == <<ChoiceOption(T_YES, T_YES), ChoiceOption(T_NO, T_NO),
                 ChoiceOption(T_NOT_GIVEN, T_NOT_GIVEN)>>

SampleContent(type) ==
    IF type = "TRUE_FALSE_NG" THEN [statement |-> <<"s">>]
    ELSE [questionText |-> <<"s">>, options |-> OptionsABC]

AnswerA == Str(<<"A">>)
AnswerSamples ==
    { Str(<<"T","R","U","E">>), Str(<<>>),
      [list |-> <<Str(<<"A">>), Str(<<"C">>)>>], [tuple |-> <<Str(<<"A">>), Str(<<"C">>)>>],
      [list |-> <<>>], [list |-> <<Str(<<"A">>), Str(<<" ">>)>>] }

\* the optional fields of a Question: all None, or some set
NoOptional ==
    [explanation |-> <<>>, checkboxGroupName |-> <<>>, occupiesQuestions |-> <<>>, canReuse |-> <<>>]
OptionalProfiles ==
    { NoOptional,
      [explanation |-> <<"why">>, checkboxGroupName |-> <<>>, occupiesQuestions |-> <<>>, canReuse |-> <<>>],
      [explanation |-> <<"">>, checkboxGroupName |-> <<"g1">>, occupiesQuestions |-> <<2>>, canReuse |-> <<TRUE>>] }

SampleQuestion(number, type, answer, opt) ==
    Question(number, type, "instruction", SampleContent(type), answer,
             opt.explanation, opt.checkboxGroupName, opt.occupiesQuestions, opt.canReuse)

Reverse(s) == [i \in 1..Len(s) |-> s[Len(s) + 1 - i]]

\* metadata as the parser derives it, and the ways a hand-written one goes wrong
MetadataVariants(difficulty, questions) ==
    LET types == QuestionTypes(questions)
    IN  { Metadata(difficulty, total, qt) :
            total \in {Len(questions), Len(questions) + 1},
            qt \in {DictFromKeys(types), Reverse(DictFromKeys(types)), types} }

GoodId == <<"e","0","0","1">>
QuestionLists ==
    UNION { { [i \in 1..n |-> SampleQuestion(numbers[i], types[i], AnswerA, NoOptional)] :
              numbers \in NumberLists(n), types \in [1..n -> SampleTypes] } :
            n \in 0..MaxQ }

\* Exams whose numbering and metadata vary, and Exams whose id varies
StructExams ==
    UNION { { Exam(GoodId, SamplePassage, questions, m) : m \in MetadataVariants(d, questions) } :
            d \in DifficultyLevel, questions \in QuestionLists }
    \cup { Exam(id, SamplePassage, <<SampleQuestion(1, "TRUE_FALSE_NG", AnswerA, NoOptional)>>,
                Metadata("P1", 1, <<"TRUE_FALSE_NG">>)) : id \in IdSamples }

\* Exams with a valid frame whose answers and optional fields vary
AnswerExams ==
    UNION { { Exam(GoodId, SamplePassage, questions,
                   Metadata("P1", Len(questions), DictFromKeys(QuestionTypes(questions)))) :
              questions \in { [i \in 1..n |->
                                 SampleQuestion(i, IF i % 2 = 1 THEN "TRUE_FALSE_NG"
                                                   ELSE "MULTIPLE_CHOICE_SINGLE", answers[i], opt)] :
                              answers \in [1..n -> AnswerSamples],
                              opt \in OptionalProfiles } } :
            n \in 1..MaxQ }

ExamInputs == StructExams \cup AnswerExams

\* JSON files as another tool or a person may have written them
JsonInputs == { exam_to_payload(e) : e \in StructExams }

(***************************************************************************)
(* html_exam_parser.py: parse_exam                                         *)
(*                                                                         *)
(* A page is what the DOM walk of parse_exam sees of the file:             *)
(*   name   the match of (\d+)\.\s*(P[123]) in the file name, <<>> if none *)
(*   left   the passage container, <<>> if not found                       *)
(*   right  the question container with its group, <<>> if not found       *)
(*   decl   the object literal declared in the page's script, <<>> if none *)
(* A group is a record: instruction, items (its choice items) and one      *)
(* field per marker element found in it (matching_table, headings_pool,    *)
(* match_items, summary_completion), absent when find_first returns None.  *)
(* The group of a page carries none of the four markers.                   *)
(***************************************************************************)
Page(name, left, right, decl) == [name |-> name, left |-> left, right |-> right, decl |-> decl]
Decl(keyword, name, semicolon, answers) ==
    [keyword |-> keyword, name |-> name, semicolon |-> semicolon, answers |-> answers]
Group(instruction, items) == [instruction |-> instruction, items |-> items]
Item(number, prompt, options) == [number |-> number, prompt |-> prompt, options |-> options]

\* f"{number:03d}"
ZeroPad3(n) ==
    LET d == DecimalStr(n)
    IN  IF Len(d) >= 3 THEN d ELSE [i \in 1..(3 - Len(d)) |-> "0"] \o d

\* _infer_identity: <<>> when the name does not match (ValueError)
_infer_identity(name) ==
    IF name = <<>> THEN <<>>
    ELSE <<[id |-> <<"e">> \o ZeroPad3(name[1].num), difficulty |-> name[1].tag]>>

\* _parse_passage: <<>> when the container or the title is missing (ValueError)
_parse_passage(left) ==
    IF left = <<>> THEN <<>>
    ELSE IF left[1].title = <<>> THEN <<>>
    ELSE <<Passage(left[1].title[1], left[1].paragraphs)>>

\* _extract_answer_key: the object literal `const correctAnswers = {...};`,
\* or the empty mapping when the page has no such declaration
_extract_answer_key(decl) ==
    IF decl = <<>> THEN <<>>
    ELSE IF decl[1].keyword = "const" /\ decl[1].name = "correctAnswers" /\ decl[1].semicolon
    THEN decl[1].answers
    ELSE <<>>

\* truth value of an answer: '' and [] are falsy
Truthy(a) == IF IsStr(a) THEN a.text # <<>> ELSE Items(a) # <<>>

\* an attachment that leaves every answer empty
AnswerFor_always_empty(answers, number) == Str(<<>>)

\* answers.get(f"q{number}") or ""
AnswerFor(answers, number) ==
    IF number \in DOMAIN answers /\ Truthy(answers[number]) THEN answers[number] ELSE Str(<<>>)

\* re.sub(r"^\d+\s*", "", text)
RECURSIVE DropWhileDigit(_)
DropWhileDigit(s) == IF s # <<>> /\ IsDigit(Head(s)) THEN DropWhileDigit(Tail(s)) ELSE s
StripLeadingNumber(s) ==
    IF s # <<>> /\ IsDigit(Head(s)) THEN LStrip(DropWhileDigit(s)) ELSE s

\* _extract_question_prompt
_extract_question_prompt(item) == Strip(StripLeadingNumber(item.prompt))

\* the tokens the upper-cased instruction contains
I_TFNG == "Do the following statements agree with the information? TRUE/FALSE/NOT GIVEN."
I_YNNG == "Do the statements agree with the views of the writer? YES/NO/NOT GIVEN."
I_TWO == "Choose TWO letters, A-E."
InstructionTokens(instruction) ==
    CASE instruction = I_TFNG -> {"TRUE", "FALSE", "NOT GIVEN", "NO"}
      [] instruction = I_YNNG -> {"YES", "NO", "NOT GIVEN"}
      [] OTHER -> {}
\* re.search(r"choose\s+(two|three|four)\s+letters", instruction, re.I)
ChoosesSeveralLetters(instruction) == instruction = I_TWO

\* _fallback_boolean_options
_fallback_boolean_options(instruction) ==
    IF {"TRUE", "FALSE", "NOT GIVEN"} \subseteq InstructionTokens(instruction)
    THEN <<ChoiceOption(<<"T","r","u","e">>, <<"T","r","u","e">>),
           ChoiceOption(<<"F","a","l","s","e">>, <<"F","a","l","s","e">>),
           ChoiceOption(<<"N","o","t"," ","G","i","v","e","n">>, <<"N","o","t"," ","G","i","v","e","n">>)>>
    ELSE IF {"YES", "NO", "NOT GIVEN"} \subseteq InstructionTokens(instruction)
    THEN <<ChoiceOption(<<"Y","e","s">>, <<"Y","e","s">>), ChoiceOption(<<"N","o">>, <<"N","o">>),
           ChoiceOption(<<"N","o","t"," ","G","i","v","e","n">>, <<"N","o","t"," ","G","i","v","e","n">>)>>
    ELSE <<>>

\* _infer_choice_type
_infer_choice_type(options, instruction) ==
    LET normalized == {Upper(Strip(options[i].text)) : i \in 1..Len(options)}
    IN  IF normalized = {T_TRUE, T_FALSE, T_NOT_GIVEN} THEN "TRUE_FALSE_NG"
        ELSE IF normalized = {T_YES, T_NO, T_NOT_GIVEN} THEN "YES_NO_NG"
        ELSE IF ChoosesSeveralLetters(instruction) THEN "MULTIPLE_CHOICE_MULTIPLE"
        ELSE "MULTIPLE_CHOICE_SINGLE"

\* the body of the loop of _parse_choice_group for one item with a number
ChoiceQuestion(item, instruction, answers) ==
    LET number == item.number[1]
        question_text == _extract_question_prompt(item)
        options == IF item.options = <<>> /\ _fallback_boolean_options(instruction) # <<>>
                   THEN _fallback_boolean_options(instruction) ELSE item.options
        question_type == _infer_choice_type(options, instruction)
    IN  Question(number, question_type, instruction,
                 [questionText |-> question_text, options |-> options],
                 AnswerFor(answers, number), <<>>, <<>>, <<>>, <<>>)

\* _parse_choice_group: one question per item that has a number, in item order
RECURSIVE ChoiceQuestions(_, _, _)
ChoiceQuestions(items, instruction, answers) ==
    IF items = <<>> THEN <<>>
    ELSE LET rest == ChoiceQuestions(Tail(items), instruction, answers)
         IN  IF Head(items).number = <<>> THEN rest
             ELSE <<ChoiceQuestion(Head(items), instruction, answers)>> \o rest
_parse_choice_group(group, answers) == ChoiceQuestions(group.items, group.instruction, answers)

\* the words the lower-cased instruction of a matching group contains
I_HEADINGS == "Choose the correct heading for each paragraph."
I_FEATURE == "Match each statement with the correct person. You may use any letter more than once."
Mentions(instruction) ==
    CASE instruction = I_HEADINGS -> {"heading", "paragraph"}
      [] instruction = I_FEATURE -> {"person", "more than once", "may use any letter"}
      [] OTHER -> {}

\* _determine_matching_table_type: the type and the statement key
_determine_matching_table_type(instruction) ==
    IF "heading" \in Mentions(instruction) THEN <<"HEADING_MATCHING", "paragraphLabel">>
    ELSE IF "paragraph" \in Mentions(instruction) THEN <<"PARAGRAPH_MATCHING", "statement">>
    ELSE IF {"classify", "classification"} \cap Mentions(instruction) # {}
    THEN <<"CLASSIFICATION", "statement">>
    ELSE IF {"feature", "person"} \cap Mentions(instruction) # {}
    THEN <<"FEATURE_MATCHING", "statement">>
    ELSE <<"CLASSIFICATION", "statement">>

\* reuse or None
ReuseFlag(reuse) == IF reuse THEN <<TRUE>> ELSE <<>>
\* content of a matching question: {key: text, "options": [...]} and canReuse
MatchingContent(key, text, reuse) ==
    (IF key = "paragraphLabel" THEN [paragraphLabel |-> text, options |-> <<>>]
     ELSE [statement |-> text, options |-> <<>>])
    @@ (IF reuse THEN [canReuse |-> TRUE] ELSE <<>>)

\* the questions a loop emits for the numbered entries of a container, in
\* container order; an entry without a number is skipped
RECURSIVE NumberedQuestions(_, _, _, _, _, _)
NumberedQuestions(entries, type, instruction, content, reuse, answers) ==
    IF entries = <<>> THEN <<>>
    ELSE LET rest == NumberedQuestions(Tail(entries), type, instruction, content, reuse, answers)
         IN  IF Head(entries) = <<>> THEN rest
             ELSE <<Question(Head(entries)[1], type, instruction, content,
                             AnswerFor(answers, Head(entries)[1]), <<>>, <<>>, <<>>, reuse)>> \o rest

\* _parse_matching_table_group: one question per body row with a number
_parse_matching_table_group(group, answers) ==
    LET table == group.matching_table
        kind == _determine_matching_table_type(group.instruction)
        reuse == "more than once" \in Mentions(group.instruction)
    IN  IF ~table.tbody THEN <<>>
        ELSE NumberedQuestions(table.rows, kind[1], group.instruction,
                               MatchingContent(kind[2], <<"s">>, reuse), ReuseFlag(reuse), answers)

\* sorted(S) of a set of numbers
RECURSIVE SortedNumbers(_)
SortedNumbers(S) ==
    IF S = {} THEN <<>>
    ELSE LET least == CHOOSE n \in S : \A m \in S : n <= m
         IN  <<least>> \o SortedNumbers(S \ {least})

\* _parse_heading_group: one question per heading target inside the range of
\* the group's "Questions a-b" header, every target without a header
_parse_heading_group(group, answers, heading_targets) ==
    LET question_range == group.headings_pool.range
        numbers == IF question_range # <<>>
                   THEN SortedNumbers({num \in DOMAIN heading_targets :
                                          question_range[1] <= num /\ num <= question_range[2]})
                   ELSE SortedNumbers(DOMAIN heading_targets)
    IN  [i \in 1..Len(numbers) |->
            Question(numbers[i], "HEADING_MATCHING", group.instruction,
                     [paragraphLabel |-> heading_targets[numbers[i]], options |-> <<>>],
                     AnswerFor(answers, numbers[i]), <<>>, <<>>, <<>>, <<>>)]

\* _parse_matching_group: one question per match-question-item with a number
_parse_matching_group(group, answers) ==
    LET reuse == "may use any letter" \in Mentions(group.instruction)
    IN  NumberedQuestions(group.match_items, "FEATURE_MATCHING", group.instruction,
                          MatchingContent("statement", <<"s">>, reuse), ReuseFlag(reuse), answers)

\* _parse_summary_group: one question per blank of the summary block
_parse_summary_group(group, answers) ==
    LET reuse == "more than once" \in Mentions(group.instruction)
    IN  NumberedQuestions(group.summary_completion, "SUMMARY_COMPLETION", group.instruction,
                          [sentence |-> <<"s">>] @@ (IF reuse THEN [canReuse |-> TRUE] ELSE <<>>),
                          <<>>, answers)

\* find_first of the marker element of a strategy
HasMarker(group, marker) == marker \in DOMAIN group

\* _parse_group with the summary-completion test moved to the front
_parse_group_summary_first(group, answers, heading_targets) ==
    IF HasMarker(group, "summary_completion") THEN _parse_summary_group(group, answers)
    ELSE IF HasMarker(group, "matching_table") THEN _parse_matching_table_group(group, answers)
    ELSE IF HasMarker(group, "headings_pool") THEN _parse_heading_group(group, answers, heading_targets)
    ELSE IF HasMarker(group, "match_items") THEN _parse_matching_group(group, answers)
    ELSE _parse_choice_group(group, answers)

\* _parse_group
_parse_group(group, answers, heading_targets) ==
    IF HasMarker(group, "matching_table") THEN _parse_matching_table_group(group, answers)
    ELSE IF HasMarker(group, "headings_pool") THEN _parse_heading_group(group, answers, heading_targets)
    ELSE IF HasMarker(group, "match_items") THEN _parse_matching_group(group, answers)
    ELSE IF HasMarker(group, "summary_completion") THEN _parse_summary_group(group, answers)
    ELSE _parse_choice_group(group, answers)

\* _collect_heading_targets: question number -> paragraph label, from the
\* paragraph wrappers of the passage whose id holds "q<number>"
_collect_heading_targets(left) ==
    IF left = <<>> \/ "anchors" \notin DOMAIN left[1] THEN <<>> ELSE left[1].anchors

\* sorted(questions, key=questionNumber): stable
RECURSIVE InsertByNumber(_, _)
InsertByNumber(sorted, q) ==
    IF sorted = <<>> THEN <<q>>
    ELSE IF sorted[Len(sorted)].questionNumber <= q.questionNumber THEN Append(sorted, q)
    ELSE Append(InsertByNumber(SubSeq(sorted, 1, Len(sorted) - 1), q), sorted[Len(sorted)])
RECURSIVE SortedByNumber(_)
SortedByNumber(qs) ==
    IF qs = <<>> THEN <<>>
    ELSE InsertByNumber(SortedByNumber(SubSeq(qs, 1, Len(qs) - 1)), qs[Len(qs)])

\* _parse_questions: <<>> when the question container is missing (ValueError)
_parse_questions(page) ==
    IF page.right = <<>> THEN <<>>
    ELSE <<SortedByNumber(_parse_group(page.right[1], _extract_answer_key(page.decl),
                                       _collect_heading_targets(page.left)))>>

\* _collect_question_types
RECURSIVE _collect_question_types(_)
_collect_question_types(questions) ==
    IF questions = <<>> THEN <<>>
    ELSE LET seen == _collect_question_types(SubSeq(questions, 1, Len(questions) - 1))
             type == questions[Len(questions)].type
         IN  IF \E i \in 1..Len(seen) : seen[i] = type THEN seen ELSE Append(seen, type)

\* parse_exam: error = "" means the Exam was returned
parse_exam(page) ==
    IF _infer_identity(page.name) = <<>> THEN Loaded(NoExam, "ValueError")
    ELSE IF _parse_passage(page.left) = <<>> THEN Loaded(NoExam, "ValueError")
    ELSE IF _parse_questions(page) = <<>> THEN Loaded(NoExam, "ValueError")
    ELSE LET identity == _infer_identity(page.name)[1]
             questions == _parse_questions(page)[1]
             metadata == Metadata(identity.difficulty, Len(questions),
                                  _collect_question_types(questions))
             e == Exam(identity.id, _parse_passage(page.left)[1], questions, metadata)
         IN  IF validate_consistency(e).error # "" THEN Loaded(NoExam, "ValueError")
             ELSE Loaded(e, "")

(***************************************************************************)
(* audit_conversion.py: audit_exam_pair and _render_diff                   *)
(***************************************************************************)
DiffPreviewLines == 200

Line(path, value) == [path |-> path, value |-> value]
IndexName(i) == DecimalStr(i - 1)

RenderOptions(path, options) ==
    <<Line(path, [open |-> "["])>>
    \o [k \in 1..(2 * Len(options)) |->
           LET o == options[(k + 1) \div 2]
           IN  IF k % 2 = 1 THEN Line(path \o <<IndexName((k + 1) \div 2), <<"label">>>>, [text |-> o.label])
               ELSE Line(path \o <<IndexName((k + 1) \div 2), <<"text">>>>, [text |-> o.text])]

RenderContent(path, content) ==
    (IF "options" \in DOMAIN content THEN RenderOptions(path \o <<<<"options">>>>, content.options) ELSE <<>>)
    \o (IF "questionText" \in DOMAIN content
        THEN <<Line(path \o <<<<"questionText">>>>, [text |-> content.questionText])>> ELSE <<>>)
    \o (IF "statement" \in DOMAIN content
        THEN <<Line(path \o <<<<"statement">>>>, [text |-> content.statement])>> ELSE <<>>)

RenderAnswer(path, answer) ==
    IF IsList(answer)
    THEN <<Line(path, [open |-> "["])>>
         \o [k \in 1..Len(answer.list) |-> Line(path \o <<IndexName(k)>>, answer.list[k])]
    ELSE <<Line(path, answer)>>

RenderOptionalKey(path, q, key) ==
    IF key \in DOMAIN q THEN <<Line(path \o <<<<key>>>>, [v |-> q[key]])>> ELSE <<>>

\* the keys of a question in sorted order (sort_keys=True)
RenderQuestion(path, q) ==
    RenderAnswer(path \o <<<<"answer">>>>, q.answer)
    \o RenderOptionalKey(path, q, "canReuse")
    \o RenderOptionalKey(path, q, "checkboxGroupName")
    \o RenderContent(path \o <<<<"content">>>>, q.content)
    \o RenderOptionalKey(path, q, "explanation")
    \o <<Line(path \o <<<<"instruction">>>>, [s |-> q.instruction]),
         Line(path \o <<<<"questionNumber">>>>, [n |-> q.questionNumber]),
         Line(path \o <<<<"type">>>>, [s |-> q.type])>>
    \o RenderOptionalKey(path, q, "occupiesQuestions")

RECURSIVE Flatten(_)
Flatten(seqs) == IF seqs = <<>> THEN <<>> ELSE Head(seqs) \o Flatten(Tail(seqs))

\* json.dumps(payload, indent=2, sort_keys=True).splitlines(): one line per
\* scalar and per list opening, each written with the path of keys above it
RenderJson(payload) ==
    <<Line(<<<<"id">>>>, [text |-> payload.id]),
      Line(<<<<"metadata">>, <<"difficulty">>>>, [n |-> payload.metadata.difficulty]),
      Line(<<<<"metadata">>, <<"questionTypes">>>>, [list |-> payload.metadata.questionTypes]),
      Line(<<<<"metadata">>, <<"totalQuestions">>>>, [n |-> payload.metadata.totalQuestions]),
      Line(<<<<"passage">>, <<"paragraphs">>>>, [list |-> payload.passage.paragraphs]),
      Line(<<<<"passage">>, <<"title">>>>, [s |-> payload.passage.title])>>
    \o Flatten([i \in 1..Len(payload.questions) |->
                   RenderQuestion(<<<<"questions">>, IndexName(i)>>, payload.questions[i])])

RECURSIVE CommonPrefix(_, _)
CommonPrefix(a, b) ==
    IF a # <<>> /\ b # <<>> /\ Head(a) = Head(b) THEN 1 + CommonPrefix(Tail(a), Tail(b)) ELSE 0

\* unified_diff: the header and one hunk that removes the lines of a and adds
\* the lines of b between their common prefix and common suffix; no line at
\* all when a = b
unified_diff(a, b) ==
    IF a = b THEN <<>>
    ELSE LET pre == CommonPrefix(a, b)
             ra == Reverse(SubSeq(a, pre + 1, Len(a)))
             rb == Reverse(SubSeq(b, pre + 1, Len(b)))
             suf == CommonPrefix(ra, rb)
             removed == SubSeq(a, pre + 1, Len(a) - suf)
             added == SubSeq(b, pre + 1, Len(b) - suf)
         IN  <<[header |-> "--- html-derived"], [header |-> "+++ json-file"]>>
             \o [i \in 1..Len(removed) |-> [minus |-> removed[i]]]
             \o [i \in 1..Len(added) |-> [plus |-> added[i]]]

\* _render_diff
_render_diff(expected, actual) ==
    LET diff_lines == unified_diff(RenderJson(expected), RenderJson(actual))
    IN  IF diff_lines = <<>> THEN <<[header |-> "(no diff detail)"]>>
        ELSE IF Len(diff_lines) > DiffPreviewLines
        THEN SubSeq(diff_lines, 1, DiffPreviewLines) \o <<[header |-> "... (diff truncated)"]>>
        ELSE diff_lines

Audit(error, d) == [error |-> error, diff |-> d]

\* audit_exam_pair that compares the metadata of the payloads only
audit_exam_pair_metadata_only(page, data) ==
    LET html == parse_exam(page)
        json == load_exam_from_json(data)
    IN  IF html.error # "" THEN Audit(html.error, NoDiff)
        ELSE IF json.error # "" THEN Audit(json.error, NoDiff)
        ELSE IF html.exam.id # json.exam.id THEN Audit("AuditError", NoDiff)
        ELSE IF _validate_answers_present(html.exam) THEN Audit("AuditError", NoDiff)
        ELSE LET html_payload == exam_to_payload(html.exam)
                 json_payload == exam_to_payload(json.exam)
             IN  IF html_payload.metadata # json_payload.metadata
                 THEN Audit("AuditError", _render_diff(html_payload, json_payload))
                 ELSE Audit("", NoDiff)

\* audit_exam_pair: error = "" means it returned without raising
audit_exam_pair(page, data) ==
    LET html == parse_exam(page)
        json == load_exam_from_json(data)
    IN  IF html.error # "" THEN Audit(html.error, NoDiff)
        ELSE IF json.error # "" THEN Audit(json.error, NoDiff)
        ELSE IF html.exam.id # json.exam.id THEN Audit("AuditError", NoDiff)
        ELSE IF _validate_answers_present(html.exam) THEN Audit("AuditError", NoDiff)
        ELSE LET html_payload == exam_to_payload(html.exam)
                 json_payload == exam_to_payload(json.exam)
             IN  IF html_payload # json_payload
                 THEN Audit("AuditError", _render_diff(html_payload, json_payload))
                 ELSE Audit("", NoDiff)

(***************************************************************************)
(* Inputs: pages                                                           *)
(***************************************************************************)
GoodName == <<[num |-> 1, tag |-> "P1"]>>
FileNames == { GoodName, <<[num |-> 12, tag |-> "P2"]>>, <<[num |-> 1000, tag |-> "P3"]>>, <<>> }
GoodLeft == <<[title |-> <<"Sample Title">>, paragraphs |-> SamplePassage.paragraphs]>>
LeftSamples == { GoodLeft, <<[title |-> <<>>, paragraphs |-> <<>>]>>, <<>> }

KeyedAnswers == <<Str(T_TRUE), Str(<<"b">>)>>
FullDecl == <<Decl("const", "correctAnswers", TRUE, KeyedAnswers)>>
DeclSamples ==
    { FullDecl,
      <<Decl("const", "correctAnswers", TRUE, <<Str(T_TRUE)>>)>>,
      <<Decl("var", "answers", TRUE, KeyedAnswers)>>,
      <<Decl("const", "results", TRUE, KeyedAnswers)>>,
      <<Decl("const", "correctAnswers", TRUE, <<List(<<>>), List(<<Str(<<"A">>), Str(<<"C">>)>>)>>)>>,
      <<>> }

Instructions == {I_TFNG, I_YNNG, I_TWO}
PromptNumbered == <<"1"," ","s">>
PromptPlain == <<"s"," ","2">>
ItemNumbers == { <<>>, <<1>>, <<2>> }
ItemOptions == { <<>>, OptionsTFNG, OptionsYNNG, OptionsABC }
ItemSamples ==
    { Item(n, PromptNumbered, o) : n \in ItemNumbers, o \in ItemOptions }
    \cup { Item(<<1>>, PromptPlain, OptionsTFNG), Item(<<2>>, PromptPlain, <<>>) }
Groups == { Group(instruction, items) :
              instruction \in Instructions,
              items \in UNION { [1..n -> ItemSamples] : n \in 0..MaxItems } }
GoodGroup == Group(I_TFNG, <<Item(<<1>>, PromptNumbered, OptionsTFNG)>>)
TwoItemGroup == Group(I_YNNG, <<Item(<<2>>, PromptPlain, <<>>), Item(<<1>>, PromptNumbered, OptionsABC)>>)

\* pages whose file name and containers vary
FramePages ==
    { Page(name, left, right, FullDecl) :
        name \in FileNames, left \in LeftSamples, right \in {<<>>, <<GoodGroup>>} }
\* pages whose group varies, with and without an answer key, and pages whose
\* script varies
GroupPages ==
    { Page(GoodName, GoodLeft, <<group>>, decl) : group \in Groups, decl \in {FullDecl, <<>>} }
    \cup { Page(GoodName, GoodLeft, <<group>>, decl) :
           group \in {GoodGroup, TwoItemGroup}, decl \in DeclSamples }
Pages == FramePages \cup GroupPages

\* pages and JSON files that are audited against each other
AuditPages ==
    { Page(GoodName, GoodLeft, <<Group(instruction, items)>>, FullDecl) :
        instruction \in {I_TFNG, I_TWO},
        items \in UNION { { [i \in 1..n |-> Item(<<i>>, PromptNumbered, options[i])] :
                            options \in [1..n -> {OptionsTFNG, OptionsABC}] } :
                          n \in 1..MaxItems } }

\* a boolean question rewritten to the statement-only shape
StatementShape(q) ==
    IF q.type \in {"true-false-ng", "yes-no-ng"} /\ "questionText" \in DOMAIN q.content
    THEN [q EXCEPT !.content = [statement |-> q.content.questionText]] ELSE q
\* the options of a question in reverse order
OptionsSwapped(q) ==
    IF "options" \in DOMAIN q.content
    THEN [q EXCEPT !.content = [q.content EXCEPT !.options = Reverse(q.content.options)]] ELSE q

PayloadVariants(payload) ==
    { payload,
      [payload EXCEPT !.questions = [i \in 1..Len(payload.questions) |-> StatementShape(payload.questions[i])]],
      [payload EXCEPT !.questions = [i \in 1..Len(payload.questions) |-> OptionsSwapped(payload.questions[i])]],
      [payload EXCEPT !.questions[1].answer = Str(<<"z">>)],
      [payload EXCEPT !.passage.title = "Other Title"],
      [payload EXCEPT !.id = <<"e","0","0","2">>] }

AuditPayloads ==
    UNION { PayloadVariants(exam_to_payload(parse_exam(p).exam)) :
            p \in {q \in AuditPages : parse_exam(q).error = ""} }

(***************************************************************************)
(* answer_parser.py                                                        *)
(*                                                                         *)
(* Page source is the sequence of object literals its script declares,     *)
(* each with the keyword and name of the declaration and the entries       *)
(* (key, value) the object reader returns for it.  A value is a string,    *)
(* a list of values, or a map [dict |-> entries].                          *)
(***************************************************************************)
Entry(key, value) == [key |-> key, value |-> value]
Source(keyword, name, entries) == [keyword |-> keyword, name |-> name, entries |-> entries]
IsDict(a) == DOMAIN a = {"dict"}

\* name.lower()
LowerName(name) ==
    CASE name = "correctAnswers" -> "correctanswers"
      [] name = "ANSWERS" -> "answers"
      [] name = "answerKey" -> "answerkey"
      [] name = "answerExplanations" -> "answerexplanations"
      [] OTHER -> name
_CORRECT_ANSWER_KEYS == {"correctanswers", "answers", "answerkey", "solutions"}
\* any(keyword in lowered for keyword in _EXPLANATION_HINT_KEYWORDS)
HasExplanationKeyword(lowered) == lowered \in {"answerexplanations", "solutions", "hints"}
\* _OBJECT_HEADER_PATTERN matches declarations made with const, let or var
MatchesHeader(d) == d.keyword \in {"const", "let", "var"}

\* _find_js_object: the first declaration with a recognised name, <<>> if none
RECURSIVE _find_js_object(_)
_find_js_object(html) ==
    IF html = <<>> THEN <<>>
    ELSE IF MatchesHeader(Head(html)) /\ LowerName(Head(html).name) \in _CORRECT_ANSWER_KEYS
    THEN <<Head(html)>>
    ELSE _find_js_object(Tail(html))

\* _find_explanation_objects
_find_explanation_objects(html) ==
    SelectSeq(html, LAMBDA d : MatchesHeader(d) /\ HasExplanationKeyword(LowerName(d.name)))

uppercase_tokens == {T_TRUE, T_FALSE, T_NOT_GIVEN, T_YES, T_NO}
RomanLetters == {"i", "v", "x", "l", "c", "d", "m"}
\* re.fullmatch(r"[A-Z]", stripped, re.IGNORECASE)
IsSingleLetter(s) == Len(s) = 1 /\ IsLetter(s[1])
\* re.fullmatch(r"[ivxlcdm]+", stripped, re.IGNORECASE)
IsRoman(s) == s # <<>> /\ \A i \in 1..Len(s) : LowerChar(s[i]) \in RomanLetters

\* _normalize_single_answer that matches the single-letter pattern against
\* the value as written instead of the stripped value
_normalize_single_answer_letter_unstripped(value) ==
    LET stripped == Strip(value)
        upper_candidate == Upper(stripped)
    IN  IF stripped = <<>> THEN stripped
        ELSE IF upper_candidate \in uppercase_tokens THEN upper_candidate
        ELSE IF IsSingleLetter(value) THEN Upper(stripped)
        ELSE IF IsRoman(stripped) THEN Lower(stripped)
        ELSE Lower(stripped)

\* _normalize_single_answer whose roman-numeral branch upper-cases
_normalize_single_answer_roman_upper(value) ==
    LET stripped == Strip(value)
        upper_candidate == Upper(stripped)
    IN  IF stripped = <<>> THEN stripped
        ELSE IF upper_candidate \in uppercase_tokens THEN upper_candidate
        ELSE IF IsSingleLetter(stripped) THEN Upper(stripped)
        ELSE IF IsRoman(stripped) THEN Upper(stripped)
        ELSE Lower(stripped)

\* _normalize_single_answer whose default branch keeps the case
_normalize_single_answer_case_kept(value) ==
    LET stripped == Strip(value)
        upper_candidate == Upper(stripped)
    IN  IF stripped = <<>> THEN stripped
        ELSE IF upper_candidate \in uppercase_tokens THEN upper_candidate
        ELSE IF IsSingleLetter(stripped) THEN Upper(stripped)
        ELSE IF IsRoman(stripped) THEN Lower(stripped)
        ELSE stripped

\* _normalize_single_answer
_normalize_single_answer(value) ==
    LET stripped == Strip(value)
        upper_candidate == Upper(stripped)
    IN  IF stripped = <<>> THEN stripped
        ELSE IF upper_candidate \in uppercase_tokens THEN upper_candidate
        ELSE IF IsSingleLetter(stripped) THEN Upper(stripped)
        ELSE IF IsRoman(stripped) THEN Lower(stripped)
        ELSE Lower(stripped)

\* _normalize_answer
RECURSIVE _normalize_answer(_)
_normalize_answer(value) ==
    IF IsStr(value) THEN Str(_normalize_single_answer(value.text))
    ELSE IF IsList(value) THEN List([i \in 1..Len(value.list) |-> _normalize_answer(value.list[i])])
    ELSE IF IsDict(value)
    THEN [dict |-> [i \in 1..Len(value.dict) |->
                       Entry(value.dict[i].key, _normalize_answer(value.dict[i].value))]]
    ELSE value

\* "\n".join(parts)
RECURSIVE JoinLines(_)
JoinLines(parts) ==
    IF parts = <<>> THEN <<>>
    ELSE IF Len(parts) = 1 THEN parts[1]
    ELSE parts[1] \o <<"\n">> \o JoinLines(Tail(parts))

ExplanationKeys == <<"explanation", "analysis", "hint", "tips", "reason">>

\* _flatten_explanation_value: <<>> for None, <<text>> otherwise
_flatten_explanation_value(value) ==
    IF IsStr(value)
    THEN IF Strip(value.text) = <<>> THEN <<>> ELSE <<Strip(value.text)>>
    ELSE IF IsList(value)
    THEN LET strs == SelectSeq(value.list, LAMBDA part : IsStr(part) /\ Strip(part.text) # <<>>)
             parts == [i \in 1..Len(strs) |-> Strip(strs[i].text)]
         IN  IF parts = <<>> THEN <<>> ELSE <<JoinLines(parts)>>
    ELSE IF IsDict(value)
    THEN LET usable(e) == IsStr(e.value) /\ Strip(e.value.text) # <<>>
             \* dict semantics: the last entry written under a key is the one read
             get(key) == LET idx == {i \in 1..Len(value.dict) : value.dict[i].key = key}
                         IN  IF idx = {} THEN <<>>
                             ELSE <<value.dict[CHOOSE i \in idx : \A j \in idx : j <= i]>>
             named == SelectSeq([k \in 1..Len(ExplanationKeys) |-> get(ExplanationKeys[k])],
                                LAMBDA g : g # <<>> /\ usable(g[1]))
             parts == IF named # <<>>
                      THEN [i \in 1..Len(named) |-> Strip(named[i][1].value.text)]
                      ELSE LET leaves == SelectSeq(value.dict, usable)
                           IN  [i \in 1..Len(leaves) |-> Strip(leaves[i].value.text)]
         IN  IF parts = <<>> THEN <<>> ELSE <<JoinLines(parts)>>
    ELSE <<>>

ExtractedAnswer(answer, explanation) == [answer |-> answer, explanation |-> explanation]

\* the dict built from entries: the last value written under a key
Keys(entries) == {entries[i].key : i \in 1..Len(entries)}
ValueAt(entries, key) ==
    entries[CHOOSE i \in 1..Len(entries) :
                /\ entries[i].key = key
                /\ \A j \in 1..Len(entries) : entries[j].key = key => j <= i].value

\* explanations[key] after the loop over the explanation objects
RECURSIVE ExplanationFor(_, _)
ExplanationFor(objects, key) ==
    IF objects = <<>> THEN <<>>
    ELSE LET last == objects[Len(objects)]
             earlier == ExplanationFor(SubSeq(objects, 1, Len(objects) - 1), key)
         IN  IF key \in Keys(last.entries)
                /\ _flatten_explanation_value(ValueAt(last.entries, key)) # <<>>
             THEN _flatten_explanation_value(ValueAt(last.entries, key))
             ELSE earlier

\* extract_answer_data: [error |-> "ParseError"] or the mapping key -> ExtractedAnswer
extract_answer_data(html) ==
    LET answers_blob == _find_js_object(html)
    IN  IF answers_blob = <<>> THEN [error |-> "ParseError"]
        ELSE LET answers == answers_blob[1].entries
                 explanations == _find_explanation_objects(html)
             IN  [result |-> [key \in Keys(answers) |->
                     ExtractedAnswer(_normalize_answer(ValueAt(answers, key)),
                                     ExplanationFor(explanations, key))]]

(***************************************************************************)
(* Inputs: page sources for the answer-key extractor                       *)
(***************************************************************************)
Alphabet == {"a", "c", "I", "v", "n", "O", " ", "1"}
RECURSIVE StringsUpTo(_)
StringsUpTo(n) ==
    IF n = 0 THEN {<<>>}
    ELSE StringsUpTo(n - 1)
         \cup {Append(s, c) : s \in {t \in StringsUpTo(n - 1) : Len(t) = n - 1}, c \in Alphabet}
WordSamples ==
    { T_TRUE, <<"T","r","u","e">>, <<"f","a","l","s","e">>, <<"n","o","t"," ","g","i","v","e","n">>,
      <<" ","Y","e","s"," ">>, <<"N","o">>, <<"P","o","l","y","n","e","s","i","a","n">>,
      <<"X","I","V">>, <<"M","i","x">>, <<"D">>, <<"x">> }
AnswerStrings == StringsUpTo(MaxLen) \cup WordSamples
ListItems == { <<"A">>, <<"c">>, <<"I","v">>, <<"N","o">>, <<" ","b"," ">> }
AnswerLists ==
    { List([i \in 1..n |-> Str(items[i])]) : n \in 0..2, items \in [1..2 -> ListItems] }

\* string-keyed maps, one nested in another
AnswerDicts ==
    { [dict |-> <<Entry("a", Str(v)), Entry("b", List(<<Str(<<" ","c">>), Str(<<"I","V">>)>>))>>] :
        v \in WordSamples }
    \cup { [dict |-> <<Entry("n", [dict |-> <<Entry("a", Str(v))>>])>>] : v \in ListItems }

DeclKeywords == {"const", "let", "var", "window"}
DeclNames == {"correctAnswers", "ANSWERS", "answerKey", "solutions", "results", "answerExplanations"}
SampleEntries == <<Entry("q1", Str(T_TRUE)), Entry("q2", Str(<<"P","o","l","y","n","e","s","i","a","n">>)),
                   Entry("q3", List(<<Str(<<"A">>), Str(<<"c">>)>>))>>
SampleExplanations ==
    <<Entry("q2", Str(<<" ","w","h","y">>)),
      Entry("q3", [dict |-> <<Entry("hint", Str(<<"h">>)), Entry("explanation", Str(<<"e">>))>>])>>

ScriptInputs ==
    \* one answer object whose string value varies
    { <<Source("const", "correctAnswers", <<Entry("q1", Str(v))>>)>> : v \in AnswerStrings }
    \* one answer object whose list value varies, next to the sample entries
    \cup { <<Source("const", "correctAnswers", SampleEntries \o <<Entry("q20_21", v)>>)>> :
           v \in AnswerLists }
    \* one answer object with a map value
    \cup { <<Source("const", "correctAnswers", <<Entry("q1", Str(T_TRUE)), Entry("q5", v)>>)>> :
           v \in AnswerDicts }
    \* declarations whose keyword and name vary, with and without explanations
    \cup { <<Source(k, n, SampleEntries)>> \o rest :
           k \in DeclKeywords, n \in DeclNames,
           rest \in { <<>>, <<Source("const", "answerExplanations", SampleExplanations)>>,
                      <<Source("var", "answers", <<Entry("q9", Str(<<"b">>))>>)>> } }
    \cup { <<>> }

(***************************************************************************)
(* Operations                                                              *)
(***************************************************************************)
Outcome(error) == IF error = "" THEN "ok" ELSE error

\* an Exam is constructed and Exam.validate_consistency is called on it
ValidateConsistency(e) ==
    /\ pc = "idle"
    /\ pc' = "validated"
    /\ exam' = e
    /\ res' = IF validate_consistency(e).error = "" THEN "ok" ELSE "ValueError"
    /\ warned' = validate_consistency(e).warning
    /\ UNCHANGED <<htmlFile, jsonFile, diff, script, extracted>>
    /\ UNCHANGED otherVars

\* export_exam_to_json: the payload of the Exam in memory is written out
ExportExamToJson ==
    /\ pc \in {"validated", "parsed"}
    /\ res = "ok"
    /\ pc' = "exported"
    /\ jsonFile' = exam_to_payload(exam)
    /\ UNCHANGED <<htmlFile, exam, res, warned, diff, script, extracted>>
    /\ UNCHANGED otherVars

\* a JSON file is put in the output directory by other means
PutJson(payload) ==
    /\ pc = "idle"
    /\ pc' = "stored"
    /\ jsonFile' = payload
    /\ UNCHANGED <<htmlFile, exam, res, warned, diff, script, extracted>>
    /\ UNCHANGED otherVars

\* load_exam_from_json on the persisted file
LoadExamFromJson ==
    /\ pc \in {"exported", "stored"}
    /\ pc' = IF pc = "exported" THEN "reloaded" ELSE "loaded"
    /\ LET r == load_exam_from_json(jsonFile)
       IN  /\ exam' = r.exam
           /\ res' = Outcome(r.error)
    /\ warned' = FALSE
    /\ UNCHANGED <<htmlFile, jsonFile, diff, script, extracted>>
    /\ UNCHANGED otherVars

PipelineIdle ==
    /\ htmlFile = NoPage
    /\ jsonFile = NoFile
    /\ exam = NoExam
    /\ res = "none"
    /\ warned = FALSE
    /\ diff = NoDiff
    /\ script = NoPage
    /\ extracted = NoPage
GroupIdle == groupNode = NoPage /\ groupQuestions = <<>>
DomIdle == builder = "none" /\ stack = <<>> /\ nodes = <<>> /\ event = <<>>
RunnerIdle ==
    /\ config = NoFile
    /\ outcomes = <<>>
    /\ batch_index = 0
    /\ worker = <<>>
    /\ attempts = <<>>
    /\ tracker = NoFile
ScanIdle == jsText = <<>> /\ jsResult = <<>>
SerializeIdle ==
    output_dir = <<>> /\ serializeCall = <<>> /\ serialization = <<>> /\ serializeRuns = 0
PassageIdle == passageParser = "none" /\ leftContents = <<>> /\ passageParagraphs = <<>>
RepairIdle == payloadFile = <<>> /\ repairChanged = <<>> /\ repairs = 0
ToolsIdle == ScanIdle /\ SerializeIdle /\ PassageIdle /\ RepairIdle
SweepIdle ==
    tool = "none" /\ html_files = <<>> /\ cursor = 0 /\ failures = <<>> /\ processed = <<>>

Init ==
    /\ pc = "idle"
    /\ PipelineIdle /\ GroupIdle /\ DomIdle /\ RunnerIdle /\ SweepIdle /\ ToolsIdle
    /\ exit_code = <<>>

\* parse_exam on an HTML file
ParseExam(page) ==
    /\ pc = "idle"
    /\ pc' = "parsed"
    /\ htmlFile' = page
    /\ LET r == parse_exam(page)
       IN  /\ exam' = r.exam
           /\ res' = Outcome(r.error)
    /\ UNCHANGED <<jsonFile, warned, diff, script, extracted>>
    /\ UNCHANGED otherVars

\* audit_exam_pair on an HTML file and a JSON file
AuditExamPair(page, payload) ==
    /\ pc = "idle"
    /\ pc' = "audited"
    /\ htmlFile' = page
    /\ jsonFile' = payload
    /\ LET r == audit_exam_pair(page, payload)
       IN  /\ res' = Outcome(r.error)
           /\ diff' = r.diff
    /\ UNCHANGED <<exam, warned, script, extracted>>
    /\ UNCHANGED otherVars

Next ==
    \/ pc = "idle" /\ \E e \in ExamInputs : ValidateConsistency(e)
    \/ pc = "idle" /\ \E page \in Pages : ParseExam(page)
    \/ pc = "idle" /\ \E page \in AuditPages, payload \in AuditPayloads : AuditExamPair(page, payload)
    \/ ExportExamToJson
    \/ pc = "idle" /\ \E payload \in JsonInputs : PutJson(payload)
    \/ LoadExamFromJson

Spec == Init /\ [][Next]_vars




\* extract_answer_data on the source of a page
ExtractAnswerData(html) ==
    /\ pc = "idle"
    /\ pc' = "extracted"
    /\ script' = html
    /\ extracted' = extract_answer_data(html)
    /\ UNCHANGED <<htmlFile, jsonFile, exam, res, warned, diff>>
    /\ UNCHANGED otherVars

NextAnswer == pc = "idle" /\ \E html \in ScriptInputs : ExtractAnswerData(html)

SpecAnswer == Init /\ [][NextAnswer]_vars


(***************************************************************************)
(* _parse_group on a group node                                            *)
(***************************************************************************)
\* what each marker element of a group may hold; <<>> when it is absent
TableChoices ==
    { <<>>, [matching_table |-> [tbody |-> TRUE, rows |-> << <<1>>, <<>> >>]],
      [matching_table |-> [tbody |-> FALSE, rows |-> <<>>]] }
PoolChoices == { <<>>, [headings_pool |-> [range |-> <<>>]], [headings_pool |-> [range |-> <<2, 2>>]] }
MatchChoices == { <<>>, [match_items |-> << <<3>>, <<>> >>], [match_items |-> <<>>] }
SummaryChoices == { <<>>, [summary_completion |-> << <<4>> >>], [summary_completion |-> <<>>] }
GroupNodes ==
    { Group(instruction, items) @@ table @@ pool @@ matches @@ summary :
        instruction \in {I_TFNG, I_HEADINGS, I_FEATURE},
        items \in { <<>>, <<Item(<<5>>, PromptNumbered, OptionsTFNG)>> },
        table \in TableChoices, pool \in PoolChoices,
        matches \in MatchChoices, summary \in SummaryChoices }
\* the answer key and the heading targets of the document around the group
GroupAnswers == [n \in 1..5 |-> AnswerA]
GroupTargets == (2 :> "B") @@ (9 :> "C")

ParseGroup(g) ==
    /\ pc = "idle"
    /\ pc' = "routed"
    /\ groupNode' = g
    /\ groupQuestions' = _parse_group(g, GroupAnswers, GroupTargets)
    /\ UNCHANGED <<pipelineVars, toolVars, domVars, runnerVars, sweepVars, exit_code>>

NextGroup == pc = "idle" /\ \E g \in GroupNodes : ParseGroup(g)

SpecGroup == Init /\ [][NextGroup]_vars

(***************************************************************************)
(* batch_runner.py.  Tasks are numbered 1..n in workload order; the worker  *)
(* coroutine of a task is "pending" before its batch starts, then           *)
(* "waiting" for the semaphore, "running" its command, "sleeping" between   *)
(* a failure and the retry, and at last "succeeded" or "failed".  A step of *)
(* a worker is what it does between two awaits.                             *)
(***************************************************************************)
MinBatchSize == 10
MaxBatchSize == 20
DefaultMaxRetries == 1

RawConfig(batch_size, concurrency, max_retries, retry_delay_seconds) ==
    [batch_size |-> batch_size, concurrency |-> concurrency, max_retries |-> max_retries,
     retry_delay_seconds |-> retry_delay_seconds]
RunnerConfig(batch_size, concurrency, max_retries, retry_delay_seconds) ==
    [batch_size |-> batch_size, concurrency |-> concurrency, max_retries |-> max_retries,
     retry_delay_seconds |-> retry_delay_seconds]
Smaller(a, b) == IF a <= b THEN a ELSE b

\* RunnerConfig.from_mapping: <<>> when it raises ValueError; an optional
\* field of the mapping is <<>> when absent
from_mapping(data) ==
    IF data.batch_size < MinBatchSize \/ data.batch_size > MaxBatchSize THEN <<>>
    ELSE LET concurrency == IF data.concurrency = <<>> THEN data.batch_size ELSE data.concurrency[1]
             max_retries == IF data.max_retries = <<>> THEN DefaultMaxRetries ELSE data.max_retries[1]
         IN  IF concurrency <= 0 THEN <<>>
             ELSE IF max_retries < 0 THEN <<>>
             ELSE IF data.retry_delay_seconds < 0 THEN <<>>
             ELSE <<RunnerConfig(data.batch_size, Smaller(concurrency, data.batch_size), max_retries,
                                 data.retry_delay_seconds)>>

\* chunked that yields full batches only
chunked_full_only(n, size) ==
    [b \in 1..(n \div size) |-> [i \in 1..size |-> (b - 1) * size + i]]

\* chunked: the task numbers 1..n in batches of size, the last one shorter
chunked(n, size) ==
    [b \in 1..((n + size - 1) \div size) |->
        [i \in 1..(Smaller(b * size, n) - (b - 1) * size) |-> (b - 1) * size + i]]

Batches == chunked(Len(outcomes), config.batch_size)
InBatch(b) == {Batches[b][i] : i \in 1..Len(Batches[b])}
Tasks == 1..Len(outcomes)

\* run_command: whether the k-th execution of the command of task t succeeds
Succeeds(t, k) == k <= Len(outcomes[t]) /\ outcomes[t][k]

\* the semaphore admits a worker although every permit is taken
semaphore_free_one_extra(wk, concurrency) ==
    Cardinality({t \in DOMAIN wk : wk[t] = "running"}) <= concurrency

\* asyncio.Semaphore(config.concurrency): a permit is left for `async with`
semaphore_free(wk, concurrency) ==
    Cardinality({t \in DOMAIN wk : wk[t] = "running"}) < concurrency

\* remaining_retries that counts the execution just made as a retry
remaining_retries_one_less(max_retries, task_attempts) == max_retries - task_attempts

\* remaining_retries = config.max_retries - (task.attempts - 1)
remaining_retries(max_retries, task_attempts) == max_retries - (task_attempts - 1)

ProgressTracker(total) == [total |-> total, completed |-> 0, failures |-> {}, retries |-> <<>>]
\* ProgressTracker.mark_success
mark_success(trk, t) == [trk EXCEPT !.completed = @ + 1]
\* self.retries[task.input_path] = retries_done
SetRetries(trk, t, retries_done) ==
    [trk EXCEPT !.retries = [k \in (DOMAIN trk.retries) \cup {t} |->
                                IF k = t THEN retries_done ELSE trk.retries[k]]]
\* ProgressTracker.mark_retry
mark_retry(trk, t, task_attempts) == SetRetries(trk, t, task_attempts - 1)
\* mark_failure that leaves the completed count alone
mark_failure_uncounted(trk, t, task_attempts) ==
    LET recorded == IF task_attempts - 1 > 0 THEN SetRetries(trk, t, task_attempts - 1) ELSE trk
    IN  [recorded EXCEPT !.failures = @ \cup {t}]

\* ProgressTracker.mark_failure
mark_failure(trk, t, task_attempts) ==
    LET counted == [trk EXCEPT !.completed = @ + 1]
        recorded == IF task_attempts - 1 > 0 THEN SetRetries(counted, t, task_attempts - 1) ELSE counted
    IN  [recorded EXCEPT !.failures = @ \cup {t}]

\* ProgressTracker.summary: the counts it reports
summary(trk) ==
    [total |-> trk.total, success |-> trk.total - Cardinality(trk.failures),
     failed |-> Cardinality(trk.failures)]

\* the return of main that tests the completed count instead of the failures
main_return_by_completed(trk) == IF trk.completed = trk.total THEN 0 ELSE 2

\* return 0 if not tracker.failures else 2
main_return(trk) == IF trk.failures = {} THEN 0 ELSE 2

\* main up to the first batch: load_config, build_tasks, ProgressTracker
LoadAndBuild(data, outs) ==
    /\ pc = "idle"
    /\ IF from_mapping(data) = <<>> \/ outs = <<>>
       THEN /\ pc' = "aborted"
            /\ exit_code' = <<1>>
            /\ UNCHANGED runnerVars
       ELSE /\ pc' = "batches"
            /\ config' = from_mapping(data)[1]
            /\ outcomes' = outs
            /\ batch_index' = 0
            /\ worker' = [t \in 1..Len(outs) |-> "pending"]
            /\ attempts' = [t \in 1..Len(outs) |-> 0]
            /\ tracker' = ProgressTracker(Len(outs))
            /\ exit_code' = exit_code
    /\ UNCHANGED <<pipelineVars, toolVars, groupVars, domVars, sweepVars>>

\* a wait that returns as soon as one worker of the batch has returned
BatchDone_first_completed(b) == \E t \in InBatch(b) : worker[t] \in {"succeeded", "failed"}

\* await asyncio.gather(*(worker(task) for task in batch)) has returned:
\* every worker of the batch has returned
BatchDone(b) == \A t \in InBatch(b) : worker[t] \in {"succeeded", "failed"}

\* process_batch is entered for the next batch: gather starts its workers
process_batch ==
    /\ pc = "batches"
    /\ batch_index < Len(Batches)
    /\ batch_index > 0 => BatchDone(batch_index)
    /\ batch_index' = batch_index + 1
    /\ worker' = [t \in Tasks |-> IF t \in InBatch(batch_index + 1) THEN "waiting" ELSE worker[t]]
    /\ UNCHANGED <<pc, config, outcomes, attempts, tracker, exit_code,
                   pipelineVars, toolVars, groupVars, domVars, sweepVars>>

\* worker: `async with semaphore` is entered, the command is started
WorkerAcquire(t) ==
    /\ pc = "batches"
    /\ worker[t] = "waiting"
    /\ semaphore_free(worker, config.concurrency)
    /\ attempts' = [attempts EXCEPT ![t] = @ + 1]
    /\ worker' = [worker EXCEPT ![t] = "running"]
    /\ UNCHANGED <<pc, config, outcomes, batch_index, tracker, exit_code,
                   pipelineVars, toolVars, groupVars, domVars, sweepVars>>

\* worker: the command has ended, the semaphore is released, the result is
\* marked
WorkerComplete(t) ==
    /\ pc = "batches"
    /\ worker[t] = "running"
    /\ IF Succeeds(t, attempts[t])
       THEN /\ tracker' = mark_success(tracker, t)
            /\ worker' = [worker EXCEPT ![t] = "succeeded"]
       ELSE IF remaining_retries(config.max_retries, attempts[t]) > 0
       THEN /\ tracker' = mark_retry(tracker, t, attempts[t])
            /\ worker' = [worker EXCEPT ![t] = IF config.retry_delay_seconds # 0 THEN "sleeping"
                                               ELSE "waiting"]
       ELSE /\ tracker' = mark_failure(tracker, t, attempts[t])
            /\ worker' = [worker EXCEPT ![t] = "failed"]
    /\ UNCHANGED <<pc, config, outcomes, batch_index, attempts, exit_code,
                   pipelineVars, toolVars, groupVars, domVars, sweepVars>>

\* worker: asyncio.sleep(retry_delay_seconds) is over
WorkerWake(t) ==
    /\ pc = "batches"
    /\ worker[t] = "sleeping"
    /\ worker' = [worker EXCEPT ![t] = "waiting"]
    /\ UNCHANGED <<pc, config, outcomes, batch_index, attempts, tracker, exit_code,
                   pipelineVars, toolVars, groupVars, domVars, sweepVars>>

\* main after the last batch: the summary is printed, the code returned
MainReturn ==
    /\ pc = "batches"
    /\ batch_index = Len(Batches)
    /\ batch_index > 0 => BatchDone(batch_index)
    /\ pc' = "finished"
    /\ exit_code' = <<main_return(tracker)>>
    /\ UNCHANGED <<runnerVars, pipelineVars, toolVars, groupVars, domVars, sweepVars>>

\* the results of the executions of one command, the first one first
OutcomeSeqs == [1..(MaxRetries + 1) -> BOOLEAN]
AlwaysOk == [k \in 1..(MaxRetries + 1) |-> TRUE]
FailOnce == [k \in 1..(MaxRetries + 1) |-> k > 1]
AlwaysFail == [k \in 1..(MaxRetries + 1) |-> FALSE]
\* workloads of at most two files: every result of every execution of the
\* first one
SmallWorkloads ==
    {<<>>} \cup {<<a>> : a \in OutcomeSeqs}
           \cup {<<a, b>> : a \in OutcomeSeqs, b \in {AlwaysOk, FailOnce, AlwaysFail}}
\* configurations from_mapping accepts: every retry limit and delay under
\* the default concurrency, every kind of concurrency under the defaults
SmallConfigs ==
    {RawConfig(MinBatchSize, <<>>, r, d) : r \in {<<>>} \cup {<<k>> : k \in 0..MaxRetries}, d \in {0, 2}}
    \cup {RawConfig(b, c, <<>>, 0) : b \in {MinBatchSize, MaxBatchSize},
                                     c \in {<<1>>, <<2>>, <<MaxBatchSize + 5>>}}
\* configurations from_mapping rejects
InvalidConfigs ==
    {RawConfig(MinBatchSize - 1, <<>>, <<>>, 0), RawConfig(MaxBatchSize + 1, <<>>, <<>>, 0),
     RawConfig(MinBatchSize, <<0>>, <<>>, 0), RawConfig(MinBatchSize, <<>>, <<-1>>, 0),
     RawConfig(MinBatchSize, <<>>, <<>>, -1)}
\* workloads that fill a batch or spill into a second one: the first and
\* the last file may fail, the others succeed at once
LargeWorkloads ==
    {[t \in 1..n |-> IF t = 1 THEN ends[1] ELSE IF t = n THEN ends[2] ELSE AlwaysOk] :
        n \in {MaxTasks - 1, MaxTasks},
        ends \in {<<AlwaysOk, AlwaysOk>>, <<AlwaysFail, AlwaysOk>>, <<FailOnce, AlwaysFail>>}}
LargeConfigs == {RawConfig(MinBatchSize, c, <<>>, 0) : c \in {<<1>>, <<2>>}}

NextRunner ==
    \/ pc = "idle" /\ \E data \in SmallConfigs, outs \in SmallWorkloads : LoadAndBuild(data, outs)
    \/ pc = "idle" /\ \E data \in InvalidConfigs : LoadAndBuild(data, <<AlwaysOk>>)
    \/ pc = "idle" /\ \E data \in LargeConfigs, outs \in LargeWorkloads : LoadAndBuild(data, outs)
    \/ process_batch
    \/ \E t \in DOMAIN worker : WorkerAcquire(t)
    \/ \E t \in DOMAIN worker : WorkerComplete(t)
    \/ \E t \in DOMAIN worker : WorkerWake(t)
    \/ MainReturn
SpecRunner == Init /\ [][NextRunner]_vars
\* the batch run when main is called, every command that was started ends,
\* every sleep ends and the event loop resumes a coroutine that is ready
SpecRunnerFair == SpecRunner /\ WF_vars(NextRunner)

(***************************************************************************)
(* DOM builders: MiniHTMLParser (html_exam_parser.py) and HTMLTreeBuilder   *)
(* (passage_parser.py).  A node is its tag and the id of its parent; id 0   *)
(* is the root, a text child has tag "#text".  The stack holds node ids.    *)
(***************************************************************************)
Builders == {"MiniHTMLParser", "HTMLTreeBuilder"}
RootId == 0
TextTag == "#text"
Node(tag, parent) == [tag |-> tag, parent |-> parent]
RootTag(b) == IF b = "MiniHTMLParser" THEN "root" ELSE "document"
TagOf(b, ns, id) == IF id = RootId THEN RootTag(b) ELSE ns[id].tag
Top(st) == st[Len(st)]

\* the tags MiniHTMLParser.handle_starttag does not push
MiniUnpushed == {"input", "img", "br", "meta", "link"}
\* HTMLTreeBuilder.SELF_CLOSING
SELF_CLOSING == {"br", "hr", "img", "input", "meta", "link", "source"}

StartEvent(tag) == [kind |-> "start", tag |-> tag]
StartEndEvent(tag) == [kind |-> "startend", tag |-> tag]
EndEvent(tag) == [kind |-> "end", tag |-> tag]
DataEvent == [kind |-> "data", tag |-> TextTag]
EventTags == {"div", "p", "br", "hr", "img", "script"}

\* handle_endtag whose loop runs `while self._stack`: without a node of the
\* tag above the root it pops the root as well
MiniPop_root_too(st, ns, tag) ==
    LET matching == {index \in 2..Len(st) : ns[st[index]].tag = tag}
    IN  IF matching = {} THEN <<>>
        ELSE SubSeq(st, 1, (CHOOSE index \in matching : \A other \in matching : other <= index) - 1)

\* MiniHTMLParser.handle_endtag: pops until the popped node has the tag or
\* only the root is left
RECURSIVE MiniPop(_, _, _)
MiniPop(st, ns, tag) ==
    IF Len(st) > 1
    THEN IF ns[Top(st)].tag = tag THEN SubSeq(st, 1, Len(st) - 1)
         ELSE MiniPop(SubSeq(st, 1, Len(st) - 1), ns, tag)
    ELSE st

\* HTMLTreeBuilder.handle_endtag: deletes from the last index above the root
\* whose node has the tag; no deletion when there is none
TreePop(st, ns, tag) ==
    LET matching == {index \in 2..Len(st) : ns[st[index]].tag = tag}
    IN  IF matching = {} THEN st
        ELSE SubSeq(st, 1, (CHOOSE index \in matching : \A other \in matching : other <= index) - 1)

\* handle_data of MiniHTMLParser ignores text below a script or style element
InsideScript(st, ns) == \E index \in 2..Len(st) : ns[st[index]].tag \in {"script", "style"}

Feeding == pc = "feeding" /\ Len(event) < MaxEvents

handle_starttag(tag) ==
    /\ Feeding
    /\ event' = Append(event, StartEvent(tag))
    /\ IF builder = "MiniHTMLParser"
       THEN IF tag = "br"
            THEN /\ nodes' = Append(nodes, Node(TextTag, Top(stack)))
                 /\ stack' = stack
            ELSE /\ nodes' = Append(nodes, Node(tag, Top(stack)))
                 /\ stack' = IF tag \notin MiniUnpushed THEN Append(stack, Len(nodes) + 1) ELSE stack
       ELSE /\ nodes' = Append(nodes, Node(tag, Top(stack)))
            /\ stack' = IF tag \notin SELF_CLOSING THEN Append(stack, Len(nodes) + 1) ELSE stack
    /\ UNCHANGED <<pc, builder, pipelineVars, toolVars, groupVars, runnerVars, sweepVars, exit_code>>

handle_startendtag(tag) ==
    /\ Feeding
    /\ event' = Append(event, StartEndEvent(tag))
    /\ IF builder = "MiniHTMLParser"
       THEN /\ nodes' = Append(nodes, Node(IF tag = "br" THEN TextTag ELSE tag, Top(stack)))
            /\ stack' = stack
       ELSE \* handle_starttag, then handle_endtag
            LET added == Append(nodes, Node(tag, Top(stack)))
                pushed == IF tag \notin SELF_CLOSING THEN Append(stack, Len(nodes) + 1) ELSE stack
            IN  /\ nodes' = added
                /\ stack' = TreePop(pushed, added, tag)
    /\ UNCHANGED <<pc, builder, pipelineVars, toolVars, groupVars, runnerVars, sweepVars, exit_code>>

handle_endtag(tag) ==
    /\ Feeding
    /\ event' = Append(event, EndEvent(tag))
    /\ stack' = IF builder = "MiniHTMLParser" THEN MiniPop(stack, nodes, tag)
                ELSE TreePop(stack, nodes, tag)
    /\ UNCHANGED <<pc, builder, nodes, pipelineVars, toolVars, groupVars, runnerVars, sweepVars, exit_code>>

\* handle_data with non-empty data
handle_data ==
    /\ Feeding
    /\ event' = Append(event, DataEvent)
    /\ nodes' = IF builder = "MiniHTMLParser" /\ InsideScript(stack, nodes) THEN nodes
                ELSE Append(nodes, Node(TextTag, Top(stack)))
    /\ UNCHANGED <<pc, builder, stack, pipelineVars, toolVars, groupVars, runnerVars, sweepVars, exit_code>>

\* a builder is constructed: the stack holds the root
InitDom ==
    /\ pc = "feeding"
    /\ builder \in Builders
    /\ stack = <<RootId>>
    /\ nodes = <<>>
    /\ event = <<>>
    /\ PipelineIdle /\ GroupIdle /\ RunnerIdle /\ SweepIdle /\ ToolsIdle
    /\ exit_code = <<>>

NextDom ==
    \/ \E tag \in EventTags : handle_starttag(tag)
    \/ \E tag \in EventTags : handle_startendtag(tag)
    \/ \E tag \in EventTags : handle_endtag(tag)
    \/ handle_data

SpecDom == InitDom /\ [][NextDom]_vars

(***************************************************************************)
(* The sweeps: main of run_full_conversion.py (convert and audit) and main *)
(* of audit_conversion.py (audit only).  A path is the number of its rank  *)
(* in the order of Path; the root given on the command line is a directory *)
(* with the listing rglob yields, in any order, a single file, or a path   *)
(* that does not exist.  `raising` holds the files whose processing raises *)
(* an Exception.                                                           *)
(***************************************************************************)
Tools == {"run_full_conversion", "audit_conversion"}
DirRoot(listing, raising) == [kind |-> "dir", listing |-> listing, raising |-> raising]
FileRoot(path, raising) == [kind |-> "file", listing |-> <<path>>, raising |-> raising]
MissingRoot(path) == [kind |-> "missing", listing |-> <<path>>, raising |-> {path}]
Range(seq) == {seq[i] : i \in DOMAIN seq}

\* _collect_html_files that keeps the order rglob yields
_collect_html_files_unsorted(root) ==
    IF root.kind = "file" THEN root.listing
    ELSE IF root.kind = "dir" THEN root.listing
    ELSE <<>>

\* run_full_conversion._collect_html_files
_collect_html_files(root) ==
    IF root.kind = "file" THEN root.listing
    ELSE IF root.kind = "dir" THEN SortedNumbers(Range(root.listing))
    ELSE <<>>

\* audit_conversion._iter_html_files, as the list main makes of it
_iter_html_files(root) ==
    IF root.kind = "dir" THEN SortedNumbers(Range(root.listing))
    ELSE root.listing

HtmlFile(path, raises) == [path |-> path, raises |-> raises]
\* SystemExit(message) ends the process with status 1
ExitStatusOfMessage == 1

\* main up to the loop: the files are collected; none found ends the run
SweepStart(t, root) ==
    /\ pc = "idle"
    /\ tool' = t
    /\ LET paths == IF t = "run_full_conversion" THEN _collect_html_files(root)
                    ELSE _iter_html_files(root)
       IN  /\ html_files' = [i \in DOMAIN paths |-> HtmlFile(paths[i], paths[i] \in root.raising)]
           /\ IF paths = <<>>
              THEN pc' = "exited" /\ exit_code' = <<ExitStatusOfMessage>>
              ELSE pc' = "sweeping" /\ exit_code' = exit_code
    /\ UNCHANGED <<cursor, failures, processed, pipelineVars, toolVars, groupVars, domVars, runnerVars>>

\* one turn of the loop: the file is processed inside try, an Exception is
\* appended to failures
SweepFile ==
    /\ pc = "sweeping"
    /\ cursor < Len(html_files)
    /\ LET html_path == html_files[cursor + 1]
       IN  /\ processed' = Append(processed, html_path.path)
           /\ failures' = IF html_path.raises THEN Append(failures, html_path.path) ELSE failures
    /\ cursor' = cursor + 1
    /\ UNCHANGED <<pc, tool, html_files, exit_code, pipelineVars, toolVars, groupVars, domVars, runnerVars>>

\* main after the loop: SystemExit(1) when failures were recorded
SweepEnd ==
    /\ pc = "sweeping"
    /\ cursor = Len(html_files)
    /\ pc' = "exited"
    /\ exit_code' = IF failures # <<>> THEN <<1>> ELSE <<0>>
    /\ UNCHANGED <<sweepVars, pipelineVars, toolVars, groupVars, domVars, runnerVars>>

\* the listings of a directory with at most MaxFiles HTML files
RECURSIVE Listings(_)
Listings(n) ==
    IF n = 0 THEN {<<>>}
    ELSE Listings(n - 1)
         \cup {Append(l, p) : l \in {x \in Listings(n - 1) : Len(x) = n - 1},
                              p \in 1..MaxFiles}
Injective(seq) == \A i, j \in DOMAIN seq : seq[i] = seq[j] => i = j
Roots ==
    {DirRoot(l, bad) : l \in {x \in Listings(MaxFiles) : Injective(x)}, bad \in SUBSET (1..MaxFiles)}
    \cup {FileRoot(1, bad) : bad \in {{}, {1}}}
    \cup {MissingRoot(1)}

NextSweep ==
    \/ \E t \in Tools, root \in Roots : SweepStart(t, root)
    \/ SweepFile
    \/ SweepEnd
SpecSweep == Init /\ [][NextSweep]_vars

(***************************************************************************)
(* answer_parser.py, at the level of characters.  A text is a tuple of     *)
(* one-character strings; positions count from 1, so position i is index   *)
(* i - 1 of the source, and 0 stands for a raised ParseError.              *)
(***************************************************************************)
BACKSLASH == "\\"
NEWLINE == "\n"
ParseError == [error |-> "ParseError"]

\* _skip_js_string that does not step over the character after a backslash
RECURSIVE _skip_js_string_no_escape(_, _, _)
_skip_js_string_no_escape(text, quote, index) ==
    IF index > Len(text) THEN 0
    ELSE IF text[index] = quote THEN index + 1
    ELSE _skip_js_string_no_escape(text, quote, index + 1)

\* _skip_js_string, entered with index = start_index + 1 and quote =
\* text[start_index]: the position after the closing quote
RECURSIVE _skip_js_string(_, _, _)
_skip_js_string(text, quote, index) ==
    IF index > Len(text) THEN 0
    ELSE IF text[index] = BACKSLASH THEN _skip_js_string(text, quote, index + 2)
    ELSE IF text[index] = quote THEN index + 1
    ELSE _skip_js_string(text, quote, index + 1)

\* text.startswith(a + b, index)
StartsWith2(text, index, a, b) ==
    index + 1 <= Len(text) /\ text[index] = a /\ text[index + 1] = b
\* text.find(a, from): the least position, 0 when there is none
Find1(text, a, from) ==
    LET hits == {i \in from..Len(text) : text[i] = a}
    IN  IF hits = {} THEN 0 ELSE CHOOSE i \in hits : \A j \in hits : i <= j
\* text.find(a + b, from)
Find2(text, a, b, from) ==
    LET hits == {i \in from..Len(text) : StartsWith2(text, i, a, b)}
    IN  IF hits = {} THEN 0 ELSE CHOOSE i \in hits : \A j \in hits : i <= j

\* _skip_js_comment: the position after the comment that starts at
\* start_index, after the slash when none starts there
_skip_js_comment(text, start_index) ==
    IF StartsWith2(text, start_index, "/", "/")
    THEN LET end == Find1(text, NEWLINE, start_index + 2)
         IN  IF end = 0 THEN Len(text) + 1 ELSE end + 1
    ELSE IF StartsWith2(text, start_index, "/", "*")
    THEN LET end == Find2(text, "*", "/", start_index + 2)
         IN  IF end = 0 THEN 0 ELSE end + 2
    ELSE start_index + 1

\* the loop of _extract_braced_block
RECURSIVE BracedBlockLoop(_, _, _, _)
BracedBlockLoop(text, brace_start, index, depth) ==
    IF index > Len(text) THEN ParseError
    ELSE LET char == text[index]
         IN  IF char = "{" THEN BracedBlockLoop(text, brace_start, index + 1, depth + 1)
             ELSE IF char = "}"
             THEN IF depth - 1 = 0 THEN [block |-> SubSeq(text, brace_start, index)]
                  ELSE BracedBlockLoop(text, brace_start, index + 1, depth - 1)
             ELSE IF char \in {"\"", "'"}
             THEN LET next == _skip_js_string(text, char, index + 1)
                  IN  IF next = 0 THEN ParseError
                      ELSE BracedBlockLoop(text, brace_start, next, depth)
             ELSE IF char = "/"
             THEN LET next == _skip_js_comment(text, index)
                  IN  IF next = 0 THEN ParseError
                      ELSE BracedBlockLoop(text, brace_start, next, depth)
             ELSE BracedBlockLoop(text, brace_start, index + 1, depth)

\* _extract_braced_block: [block |-> the text of the block] or ParseError
_extract_braced_block(text, brace_start) == BracedBlockLoop(text, brace_start, brace_start, 0)

\* _COMMENT_PATTERN.sub("", text): from the left, a // up to the end of its
\* line and a /* up to the first */ after it are removed
RECURSIVE StripComments(_, _)
StripComments(text, index) ==
    IF index > Len(text) THEN <<>>
    ELSE IF StartsWith2(text, index, "/", "/")
    THEN LET end == Find1(text, NEWLINE, index + 2)
         IN  IF end = 0 THEN <<>> ELSE StripComments(text, end)
    ELSE IF StartsWith2(text, index, "/", "*") /\ Find2(text, "*", "/", index + 2) # 0
    THEN StripComments(text, Find2(text, "*", "/", index + 2) + 2)
    ELSE <<text[index]>> \o StripComments(text, index + 1)

\* _ObjectReader.__init__ that leaves the text as it is
ReaderText_unstripped(text) == text

\* _ObjectReader.__init__: self._text
ReaderText(text) == StripComments(text, 1)

\* results of the reader's methods: the value read and the position after it
Read(value, index) == [ok |-> TRUE, value |-> value, index |-> index]
ReadFails == [ok |-> FALSE]

\* _consume_whitespace
RECURSIVE _consume_whitespace(_, _)
_consume_whitespace(text, index) ==
    IF index <= Len(text) /\ IsSpace(text[index]) THEN _consume_whitespace(text, index + 1)
    ELSE index

\* escapes.get(next_char, next_char) of _parse_string
Unescape(next_char, quote) ==
    CASE next_char = "n" -> NEWLINE
      [] next_char = "r" -> "\r"
      [] next_char = "t" -> "\t"
      [] OTHER -> next_char

\* the loop of _parse_string
RECURSIVE StringLoop(_, _, _, _)
StringLoop(text, quote, index, value_chars) ==
    IF index > Len(text) THEN ReadFails
    ELSE IF text[index] = quote THEN Read(Str(value_chars), index + 1)
    ELSE IF text[index] = BACKSLASH
    THEN IF index + 1 > Len(text) THEN ReadFails
         ELSE StringLoop(text, quote, index + 2, Append(value_chars, Unescape(text[index + 1], quote)))
    ELSE StringLoop(text, quote, index + 1, Append(value_chars, text[index]))

\* _parse_string, entered at the opening quote
_parse_string(text, index) == StringLoop(text, text[index], index + 1, <<>>)

IsIdentifierChar(c) == IsLetter(c) \/ IsDigit(c) \/ c \in {"_", "-"}
RECURSIVE IdentifierEnd(_, _)
IdentifierEnd(text, index) ==
    IF index <= Len(text) /\ IsIdentifierChar(text[index]) THEN IdentifierEnd(text, index + 1)
    ELSE index
\* _parse_identifier
_parse_identifier(text, start) ==
    LET end == IdentifierEnd(text, start)
    IN  IF end = start THEN ReadFails ELSE Read(Str(SubSeq(text, start, end - 1)), end)

\* _parse_key
_parse_key(text, start) ==
    LET index == _consume_whitespace(text, start)
    IN  IF index <= Len(text) /\ text[index] \in {"'", "\""} THEN _parse_string(text, index)
        ELSE _parse_identifier(text, index)

RECURSIVE _parse_value(_, _)
RECURSIVE ObjectLoop(_, _, _)
RECURSIVE ArrayLoop(_, _, _)

\* the loop of _parse_object, entered after the opening brace
ObjectLoop(text, start, obj) ==
    LET index == _consume_whitespace(text, start)
    IN  IF index > Len(text) THEN ReadFails
        ELSE IF text[index] = "}" THEN Read([dict |-> obj], index + 1)
        ELSE LET key == _parse_key(text, index)
             IN  IF ~key.ok THEN ReadFails
                 ELSE LET colon == _consume_whitespace(text, key.index)
                      IN  IF colon > Len(text) \/ text[colon] # ":" THEN ReadFails
                          ELSE LET value == _parse_value(text, colon + 1)
                               IN  IF ~value.ok THEN ReadFails
                                   ELSE LET after == _consume_whitespace(text, value.index)
                                            written == Append(obj, Entry(key.value.text, value.value))
                                        IN  IF after > Len(text) THEN ReadFails
                                            ELSE IF text[after] = "," THEN ObjectLoop(text, after + 1, written)
                                            ELSE IF text[after] = "}" THEN Read([dict |-> written], after + 1)
                                            ELSE ReadFails

\* the loop of _parse_array, entered after the opening bracket
ArrayLoop(text, start, array) ==
    LET index == _consume_whitespace(text, start)
    IN  IF index > Len(text) THEN ReadFails
        ELSE IF text[index] = "]" THEN Read(List(array), index + 1)
        ELSE LET value == _parse_value(text, index)
             IN  IF ~value.ok THEN ReadFails
                 ELSE LET after == _consume_whitespace(text, value.index)
                      IN  IF after > Len(text) THEN ReadFails
                          ELSE IF text[after] = "," THEN ArrayLoop(text, after + 1, Append(array, value.value))
                          ELSE IF text[after] = "]" THEN Read(List(Append(array, value.value)), after + 1)
                          ELSE ReadFails

\* _parse_value
_parse_value(text, start) ==
    LET index == _consume_whitespace(text, start)
    IN  IF index > Len(text) THEN ReadFails
        ELSE IF text[index] \in {"'", "\""} THEN _parse_string(text, index)
        ELSE IF text[index] = "[" THEN ArrayLoop(text, index + 1, <<>>)
        ELSE IF text[index] = "{" THEN ObjectLoop(text, index + 1, <<>>)
        ELSE _parse_identifier(text, index)

\* _ObjectReader(text).parse(): [dict |-> entries in written order] or
\* ParseError
ObjectReaderParse(text) ==
    LET stripped == ReaderText(text)
        index == _consume_whitespace(stripped, 1)
    IN  IF index > Len(stripped) \/ stripped[index] # "{" THEN ParseError
        ELSE LET obj == ObjectLoop(stripped, index + 1, <<>>)
             IN  IF obj.ok THEN obj.value ELSE ParseError

\* the declaration headers _OBJECT_HEADER_PATTERN matches, each written
\* without the brace that ends the match and standing in a text as one
\* symbol: to the scanner and the reader its characters are ordinary ones
H_ANSWERS == "const correctAnswers ="
H_HINTS == "const hints ="
H_OTHER == "const pageData ="
HeaderName(symbol) ==
    CASE symbol = H_ANSWERS -> <<"correctanswers">>
      [] symbol = H_HINTS -> <<"hints">>
      [] symbol = H_OTHER -> <<"pagedata">>
      [] OTHER -> <<>>
\* the matches of _OBJECT_HEADER_PATTERN.finditer(html): the positions of
\* their braces
HeaderMatches(html) ==
    SelectSeq([i \in 1..Len(html) |-> i],
              LAMBDA i : i > 1 /\ html[i] = "{" /\ HeaderName(html[i - 1]) # <<>>)

\* _find_js_object on a text: <<>> for None, else <<block or ParseError>>
FindJsObjectText(html) ==
    LET named == SelectSeq(HeaderMatches(html),
                           LAMBDA i : HeaderName(html[i - 1])[1] \in _CORRECT_ANSWER_KEYS)
    IN  IF named = <<>> THEN <<>> ELSE <<_extract_braced_block(html, named[1])>>

\* _find_explanation_objects on a text: the bodies in order, ParseError when
\* _extract_braced_block raises for one of them
FindExplanationObjectsText(html) ==
    LET named == SelectSeq(HeaderMatches(html),
                           LAMBDA i : HasExplanationKeyword(HeaderName(html[i - 1])[1]))
        bodies == [k \in 1..Len(named) |-> _extract_braced_block(html, named[k])]
    IN  IF \E k \in 1..Len(named) : bodies[k] = ParseError THEN ParseError
        ELSE [bodies |-> [k \in 1..Len(named) |-> bodies[k].block]]

\* extract_answer_data on a text: ParseError or [result |-> key -> ExtractedAnswer]
ExtractAnswerDataText(html) ==
    LET answers_blob == FindJsObjectText(html)
    IN  IF answers_blob = <<>> \/ answers_blob[1] = ParseError THEN ParseError
        ELSE LET answers == ObjectReaderParse(answers_blob[1].block)
                 found == FindExplanationObjectsText(html)
             IN  IF answers = ParseError \/ found = ParseError THEN ParseError
                 ELSE LET parsed == [k \in 1..Len(found.bodies) |-> ObjectReaderParse(found.bodies[k])]
                          read == SelectSeq(parsed, LAMBDA p : p # ParseError)
                          objects == [k \in 1..Len(read) |-> [entries |-> read[k].dict]]
                      IN  [result |-> [key \in Keys(answers.dict) |->
                              ExtractedAnswer(_normalize_answer(ValueAt(answers.dict, key)),
                                              ExplanationFor(objects, key))]]

\* _extract_braced_block is called at the opening brace of a text
ExtractBracedBlock(text) ==
    /\ pc = "idle"
    /\ pc' = "scanned"
    /\ jsText' = text
    /\ jsResult' = _extract_braced_block(text, 1)
    /\ UNCHANGED <<pipelineVars, groupVars, domVars, runnerVars, sweepVars, exit_code,
                   serializeVars, passageVars, repairVars>>

\* _ObjectReader(text).parse()
ObjectReaderRead(text) ==
    /\ pc = "idle"
    /\ pc' = "read"
    /\ jsText' = text
    /\ jsResult' = ObjectReaderParse(text)
    /\ UNCHANGED <<pipelineVars, groupVars, domVars, runnerVars, sweepVars, exit_code,
                   serializeVars, passageVars, repairVars>>

\* extract_answer_data(html)
ExtractFromText(html) ==
    /\ pc = "idle"
    /\ pc' = "answers_extracted"
    /\ jsText' = html
    /\ jsResult' = ExtractAnswerDataText(html)
    /\ UNCHANGED <<pipelineVars, groupVars, domVars, runnerVars, sweepVars, exit_code,
                   serializeVars, passageVars, repairVars>>

JsAlphabet == {"{", "}", "'", "\"", BACKSLASH, "/", "*", NEWLINE, "a"}
\* the texts of at most n characters of an alphabet
Texts(alphabet, n) == UNION {[1..k -> alphabet] : k \in 0..n}
\* texts that open a brace: every continuation of MaxScan characters, and
\* a comment with every content of two characters before what may close
ScanTexts ==
    {<<"{">> \o s : s \in Texts(JsAlphabet, MaxScan)}
    \cup {<<"{", "/", "*">> \o s \o <<"*", "/">> \o t :
            s \in Texts(JsAlphabet, 2), t \in {<<>>, <<"}">>, <<"a", "}", "}">>}}
    \cup {<<"{", "/", "/">> \o s \o <<NEWLINE>> \o t :
            s \in Texts(JsAlphabet, 2), t \in {<<>>, <<"}">>, <<"a", "}", "}">>}}

\* a string written as a JS string literal between quotes of one kind
RECURSIVE Encode(_, _)
Encode(chars, quote) ==
    IF chars = <<>> THEN <<>>
    ELSE LET c == Head(chars)
             written == IF c = BACKSLASH THEN <<BACKSLASH, BACKSLASH>>
                        ELSE IF c = quote THEN <<BACKSLASH, quote>>
                        ELSE IF c = NEWLINE THEN <<BACKSLASH, "n">>
                        ELSE <<c>>
         IN  written \o Encode(Tail(chars), quote)
\* the object literal {a:'...'} or {a:"..."} that holds one string
Literal(chars, quote) == <<"{", "a", ":", quote>> \o Encode(chars, quote) \o <<quote, "}">>
Literals == {Literal(s, q) : s \in Texts(JsAlphabet, MaxScan), q \in {"'", "\""}}

\* pages: an answer object, well formed or cut short, then nothing, or a
\* hints object with every body of MaxScan characters, or two hints objects
AnswerObjectText == <<H_ANSWERS>> \o <<"{", "a", ":", "'", "b", "'", "}">>
HintAlphabet == {"{", "}", "'", ":", "a", "/"}
HtmlTexts ==
    {AnswerObjectText \o <<H_HINTS, "{">> \o g : g \in Texts(HintAlphabet, MaxScan)}
    \cup {AnswerObjectText \o <<H_HINTS, "{">> \o g \o <<H_HINTS>> \o Literal(<<"w">>, "'") :
            g \in Texts(HintAlphabet, 2)}
    \cup {AnswerObjectText, <<H_ANSWERS, "{", "a", ":">>, <<H_OTHER>> \o Literal(<<"b">>, "'"),
          <<H_ANSWERS, "{", "a", "b", "}">>}

NextScan ==
    \/ pc = "idle" /\ \E text \in ScanTexts : ExtractBracedBlock(text)
    \/ pc = "idle" /\ \E text \in Literals : ObjectReaderRead(text)
    \/ pc = "idle" /\ \E html \in HtmlTexts : ExtractFromText(html)
SpecScan == Init /\ [][NextScan]_vars

(***************************************************************************)
(* scripts/serialize_exams.py.  An exam of the source data is a mapping    *)
(* with an optional "id" (a string), an optional "number" and a body, the  *)
(* fields passage, questions and metadata taken together (<<>> when one    *)
(* of them is missing).  The output directory maps file names to contents. *)
(***************************************************************************)
SourceExam(id, number, body) == [id |-> id, number |-> number, body |-> body]
LogName == <<"serialization.log">>
ExamFileName(exam_id) == exam_id \o <<".json">>
ExamSerializationError == [error |-> "ExamSerializationError"]

DigitValue(c) == CHOOSE n \in 0..9 : Digits[n + 1] = c
\* int(match.group(1)) for re.search(r"(\d+)", raw): <<>> without a match
RECURSIVE DigitRunValue(_, _)
DigitRunValue(s, value) ==
    IF s # <<>> /\ IsDigit(Head(s)) THEN DigitRunValue(Tail(s), 10 * value + DigitValue(Head(s)))
    ELSE value
RECURSIVE FirstNumber(_)
FirstNumber(raw) ==
    IF raw = <<>> THEN <<>>
    ELSE IF IsDigit(Head(raw)) THEN <<DigitRunValue(raw, 0)>>
    ELSE FirstNumber(Tail(raw))

\* _normalise_exam_id: <<the id e###>>, <<>> when it raises
_normalise_exam_id(raw_id) ==
    IF FirstNumber(raw_id) = <<>> THEN <<>>
    ELSE <<<<"e">> \o ZeroPad3(FirstNumber(raw_id)[1])>>

\* _extract_exam_id
_extract_exam_id(item) ==
    IF item.id # <<>> THEN _normalise_exam_id(item.id[1])
    ELSE IF item.number # <<>> THEN _normalise_exam_id(DecimalStr(item.number[1]))
    ELSE <<>>

\* _iter_exams over a list: the exams with their ids normalised, or the
\* error raised for the first exam that lacks a field or an id
_iter_exams(source) ==
    IF \E i \in 1..Len(source) : source[i].body = <<>> \/ _extract_exam_id(source[i]) = <<>>
    THEN ExamSerializationError
    ELSE [exams |-> [i \in 1..Len(source) |->
                        [id |-> _extract_exam_id(source[i])[1], body |-> source[i].body[1]]]]

\* normalised_exams.sort(key=number of the id): a stable sort
ExamNumber(item) == FirstNumber(item.id)[1]
RECURSIVE SortedByExamNumber(_)
SortedByExamNumber(exams) ==
    IF exams = <<>> THEN <<>>
    ELSE LET least == CHOOSE i \in 1..Len(exams) :
                          /\ \A j \in 1..Len(exams) : ExamNumber(exams[i]) <= ExamNumber(exams[j])
                          /\ \A j \in 1..(i - 1) : ExamNumber(exams[j]) # ExamNumber(exams[i])
         IN  <<exams[least]>>
             \o SortedByExamNumber(SubSeq(exams, 1, least - 1) \o SubSeq(exams, least + 1, Len(exams)))

SerializationResult(total, written, skipped) == [total |-> total, written |-> written, skipped |-> skipped]
\* json.dump(record, fh): the content of an exam file
Dumped(item) == <<item.id, item.body>>
\* the content "{}"
EmptyObject == <<>>

\* the test of the loop that overwrites whatever exists
Skips_never(exists, overwrite) == FALSE

\* target_path.exists() and overwrite == "skip"
Skips(exists, overwrite) == exists /\ overwrite = "skip"

\* the loop of serialize_exams over the sorted exams
RECURSIVE SerializeLoop(_, _, _, _, _, _)
SerializeLoop(exams, dir, overwrite, written, skipped, log) ==
    IF exams = <<>>
    THEN [dir |-> (LogName :> Append(log, "done")) @@ dir,
          result |-> SerializationResult(written + skipped, written, skipped)]
    ELSE LET item == Head(exams)
             target_path == ExamFileName(item.id)
         IN  IF Skips(target_path \in DOMAIN dir, overwrite)
             THEN SerializeLoop(Tail(exams), dir, overwrite, written, skipped + 1,
                                Append(log, "skip"))
             ELSE SerializeLoop(Tail(exams), (target_path :> Dumped(item)) @@ dir, overwrite,
                                written + 1, skipped, Append(log, "write"))

\* serialize_exams: the directory it leaves and what it returns or raises
serialize_exams(exams, dir, overwrite) ==
    IF overwrite \notin {"skip", "force"} THEN [dir |-> dir, result |-> [error |-> "ValueError"]]
    ELSE LET logged == (LogName :> <<>>) @@ dir
             normalised_exams == _iter_exams(exams)
         IN  IF normalised_exams = ExamSerializationError
             THEN [dir |-> logged, result |-> ExamSerializationError]
             ELSE SerializeLoop(SortedByExamNumber(normalised_exams.exams), logged, overwrite, 0, 0, <<>>)

\* serialize_exams(exams, output_dir, overwrite=overwrite)
SerializeExams(exams, overwrite) ==
    /\ pc \in {"idle", "serialized"}
    /\ serializeRuns < MaxRuns
    /\ pc' = "serialized"
    /\ serializeRuns' = serializeRuns + 1
    /\ serializeCall' = [exams |-> exams, overwrite |-> overwrite]
    /\ output_dir' = serialize_exams(exams, output_dir, overwrite).dir
    /\ serialization' = serialize_exams(exams, output_dir, overwrite).result
    /\ UNCHANGED <<pipelineVars, groupVars, domVars, runnerVars, sweepVars, exit_code,
                   scanVars, passageVars, repairVars>>

\* between two calls a file of the directory is rewritten from outside, as
\* test_skip_existing_files does with target.write_text("{}")
WriteText(name) ==
    /\ pc = "serialized"
    /\ name \in DOMAIN output_dir
    /\ output_dir[name] # EmptyObject
    /\ output_dir' = (name :> EmptyObject) @@ output_dir
    /\ UNCHANGED <<pc, serializeCall, serialization, serializeRuns, pipelineVars, groupVars, domVars,
                   runnerVars, sweepVars, exit_code, scanVars, passageVars, repairVars>>

\* source exams: ids that normalise to e002 in two writings, a number, an
\* id without digits, no id at all, a missing field
SourceExams ==
    {SourceExam(<<<<"e", "0", "0", "2">>>>, <<>>, <<body>>) : body \in {"A", "B"}}
    \cup {SourceExam(<<<<"2">>>>, <<5>>, <<"A">>), SourceExam(<<>>, <<5>>, <<"B">>),
          SourceExam(<<<<"x">>>>, <<5>>, <<"A">>), SourceExam(<<>>, <<>>, <<"A">>),
          SourceExam(<<>>, <<1>>, <<>>)}
ExamLists == UNION {[1..n -> SourceExams] : n \in 0..MaxExams}
ExamFileNames == {ExamFileName(<<"e", "0", "0", "2">>), ExamFileName(<<"e", "0", "0", "5">>)}

NextSerialize ==
    \/ pc \in {"idle", "serialized"} /\ serializeRuns < MaxRuns
         /\ \E exams \in ExamLists, overwrite \in {"skip", "force", "replace"} :
               SerializeExams(exams, overwrite)
    \/ \E name \in ExamFileNames : WriteText(name)
SpecSerialize == Init /\ [][NextSerialize]_vars

(***************************************************************************)
(* Passage extraction from the children of the passage container, in the   *)
(* two parsers of the repository: _parse_passage of html_exam_parser.py    *)
(* and _collect_paragraphs of passage_parser.py.  A child is an element    *)
(* (tag, id, class list, normalised text of a p or h3, contents) or a      *)
(* string (its normalised text).                                           *)
(***************************************************************************)
Element(tag, id, class_list, text, contents) ==
    [tag |-> tag, id |-> id, class_list |-> class_list, text |-> text, contents |-> contents]
TextChild(text) == [text |-> text]
IsElement(item) == "tag" \in DOMAIN item
Unlabelled(text) == Paragraph(text, <<>>)

\* html_exam_parser._is_empty_space_marker
_is_empty_space_marker(node) == node.tag = "div" /\ "empty-space" \in node.class_list

\* html_exam_parser._is_paragraph_label_container
_is_paragraph_label_container(node) ==
    \/ node.tag = "div" /\ "paragraph-dropzone" \in node.class_list
    \/ node.tag \in {"span", "div"} /\ "paragraph-label" \in node.class_list
    \/ node.tag = "div" /\ "dropped-items" \in node.class_list

\* html_exam_parser._collect_paragraphs(node): the inner _walk
RECURSIVE _walk(_)
_walk(current) ==
    LET RECURSIVE Contents(_)
        Contents(contents) ==
            IF contents = <<>> THEN <<>>
            ELSE LET child == Head(contents)
                 IN  (IF IsElement(child)
                      THEN IF _is_empty_space_marker(child) THEN <<>> ELSE _walk(child)
                      ELSE IF child.text # "" THEN <<Unlabelled(child.text)>> ELSE <<>>)
                     \o Contents(Tail(contents))
    IN  IF _is_paragraph_label_container(current) THEN <<>>
        ELSE IF current.tag = "p"
        THEN IF current.text # "" THEN <<Unlabelled(current.text)>> ELSE <<>>
        ELSE Contents(current.contents)

\* left_section.find_first("h3") among the children: 0 without a title
TitleIndex(contents) ==
    IF \E i \in 1..Len(contents) : IsElement(contents[i]) /\ contents[i].tag = "h3"
    THEN CHOOSE i \in 1..Len(contents) :
             /\ IsElement(contents[i]) /\ contents[i].tag = "h3"
             /\ \A j \in 1..(i - 1) : ~(IsElement(contents[j]) /\ contents[j].tag = "h3")
    ELSE 0

\* the loop of html_exam_parser._parse_passage over left_section.contents
\* from the child after the title
RECURSIVE ParsePassageLoop(_)
ParsePassageLoop(contents) ==
    IF contents = <<>> THEN <<>>
    ELSE LET item == Head(contents)
         IN  IF IsElement(item)
             THEN IF _is_empty_space_marker(item) THEN <<>>
                  ELSE _walk(item) \o ParsePassageLoop(Tail(contents))
             ELSE (IF item.text # "" THEN <<Unlabelled(item.text)>> ELSE <<>>)
                  \o ParsePassageLoop(Tail(contents))

\* passage_parser._parse_simple_block
_parse_simple_block(node) == IF node.text = "" THEN <<>> ELSE <<Unlabelled(node.text)>>
DirectParagraphs(node) ==
    SelectSeq(node.contents, LAMBDA child : IsElement(child) /\ child.tag = "p")
\* passage_parser._parse_paragraph_wrapper: the first p of the wrapper
_parse_paragraph_wrapper(wrapper) ==
    IF DirectParagraphs(wrapper) = <<>> THEN <<>>
    ELSE _parse_simple_block(DirectParagraphs(wrapper)[1])
RECURSIVE SimpleBlocks(_)
SimpleBlocks(para_nodes) ==
    IF para_nodes = <<>> THEN <<>>
    ELSE _parse_simple_block(Head(para_nodes)) \o SimpleBlocks(Tail(para_nodes))

\* the loop of passage_parser._collect_paragraphs over siblings[start_index + 1:]
RECURSIVE CollectParagraphsLoop(_)
CollectParagraphsLoop(siblings) ==
    IF siblings = <<>> THEN <<>>
    ELSE LET item == Head(siblings)
             rest == Tail(siblings)
         IN  IF ~IsElement(item) THEN CollectParagraphsLoop(rest)
             ELSE IF item.tag = "div" /\ item.id = "divider" THEN <<>>
             ELSE IF item.tag = "section" /\ item.id = "right" THEN <<>>
             ELSE IF item.tag = "div" /\ "practice-nav" \in item.class_list THEN <<>>
             ELSE IF item.tag = "div" /\ "empty-space" \in item.class_list
             THEN CollectParagraphsLoop(rest)
             ELSE IF item.tag = "div" /\ "paragraph-wrapper" \in item.class_list
             THEN _parse_paragraph_wrapper(item) \o CollectParagraphsLoop(rest)
             ELSE IF item.tag \in {"p", "h4", "h5"}
             THEN _parse_simple_block(item) \o CollectParagraphsLoop(rest)
             ELSE SimpleBlocks(DirectParagraphs(item)) \o CollectParagraphsLoop(rest)

AfterTitle(contents) == SubSeq(contents, TitleIndex(contents) + 1, Len(contents))
\* the paragraph list each parser makes of the children of the container
PassageParagraphs(parser, contents) ==
    IF parser = "html_exam_parser" THEN ParsePassageLoop(AfterTitle(contents))
    ELSE CollectParagraphsLoop(AfterTitle(contents))

\* _parse_passage(root) or parse_passage(html) on a container with a title
ParsePassage(parser, contents) ==
    /\ pc = "idle"
    /\ TitleIndex(contents) # 0
    /\ pc' = "passage_parsed"
    /\ passageParser' = parser
    /\ leftContents' = contents
    /\ passageParagraphs' = PassageParagraphs(parser, contents)
    /\ UNCHANGED <<pipelineVars, groupVars, domVars, runnerVars, sweepVars, exit_code,
                   scanVars, serializeVars, repairVars>>

\* children of a passage container
P(text) == Element("p", "", {}, text, <<>>)
TitleNode == Element("h3", "", {}, "T", <<>>)
EmptySpace == Element("div", "", {"empty-space"}, "", <<>>)
Divider == Element("div", "divider", {}, "", <<>>)
QuestionsContainer == Element("section", "right", {"pane"}, "", <<P("q")>>)
PracticeNav == Element("div", "", {"practice-nav"}, "", <<>>)
ParagraphWrapper == Element("div", "", {"paragraph-wrapper"}, "", <<P("w")>>)
Blocks ==
    {P("a"), P("b"), P(""), EmptySpace, Divider, QuestionsContainer, PracticeNav, ParagraphWrapper,
     Element("div", "", {}, "", <<EmptySpace, P("d")>>), TextChild("t"), TextChild("")}
LeftContents == {<<TitleNode>> \o blocks : blocks \in UNION {[1..n -> Blocks] : n \in 0..MaxBlocks}}

NextPassage ==
    pc = "idle" /\ \E parser \in {"html_exam_parser", "passage_parser"}, contents \in LeftContents :
                       ParsePassage(parser, contents)
SpecPassage == Init /\ [][NextPassage]_vars

(***************************************************************************)
(* develop/scripts/ingest/repair_boolean_question_types.py.  A payload is  *)
(* the questions of a JSON file and its metadata (<<>> when the file has   *)
(* none); the content of a question holds each of the keys statement,      *)
(* questionText and options or not (<<>>).                                 *)
(***************************************************************************)
RepairContent(statement, questionText, options) ==
    [statement |-> statement, questionText |-> questionText, options |-> options]
RepairQuestion(instruction, content, type) ==
    [instruction |-> instruction, content |-> content, type |-> type]
Payload(questions, metadata) == [questions |-> questions, metadata |-> metadata]
BooleanSpec(type, labels) == [type |-> type, labels |-> labels]
TrueFalseSpec == BooleanSpec("true-false-ng", <<T_TRUE, T_FALSE, T_NOT_GIVEN>>)
YesNoSpec == BooleanSpec("yes-no-ng", <<T_YES, T_NO, T_NOT_GIVEN>>)

\* _options_match
_options_match(options, labels) ==
    /\ Len(options) = Len(labels)
    /\ \A i \in 1..Len(options) :
          /\ Upper(Strip(options[i].label)) = Upper(labels[i])
          /\ Upper(Strip(options[i].text)) = Upper(labels[i])

\* _detect_boolean_spec: <<the spec>>, <<>> for None
_detect_boolean_spec(instruction, content) ==
    IF {"TRUE", "FALSE", "NOT GIVEN"} \subseteq InstructionTokens(instruction) THEN <<TrueFalseSpec>>
    ELSE IF {"YES", "NO", "NOT GIVEN"} \subseteq InstructionTokens(instruction) THEN <<YesNoSpec>>
    ELSE IF content.options = <<>> THEN <<>>
    ELSE IF _options_match(content.options[1], TrueFalseSpec.labels) THEN <<TrueFalseSpec>>
    ELSE IF _options_match(content.options[1], YesNoSpec.labels) THEN <<YesNoSpec>>
    ELSE <<>>

\* _normalize_statement: <<the text>>, <<>> for None
_normalize_statement(content) ==
    IF content.statement # <<>> /\ Strip(content.statement[1]) # <<>>
    THEN <<Strip(content.statement[1])>>
    ELSE IF content.questionText # <<>> /\ Strip(content.questionText[1]) # <<>>
    THEN <<Strip(content.questionText[1])>>
    ELSE <<>>

\* _normalize_question_types that keeps the type of every question
RECURSIVE _normalize_question_types_repeated(_)
_normalize_question_types_repeated(questions) ==
    IF questions = <<>> THEN <<>>
    ELSE Append(_normalize_question_types_repeated(SubSeq(questions, 1, Len(questions) - 1)),
                questions[Len(questions)].type)

\* _normalize_question_types
RECURSIVE _normalize_question_types(_)
_normalize_question_types(questions) ==
    IF questions = <<>> THEN <<>>
    ELSE LET ordered == _normalize_question_types(SubSeq(questions, 1, Len(questions) - 1))
             qtype == questions[Len(questions)].type
         IN  IF \E i \in 1..Len(ordered) : ordered[i] = qtype THEN ordered ELSE Append(ordered, qtype)

\* the body of the loop of repair_file for one question
Repaired(question) ==
    LET detection == _detect_boolean_spec(question.instruction, question.content)
        statement == _normalize_statement(question.content)
    IN  IF detection = <<>> THEN question
        ELSE IF statement = <<>> THEN question
        ELSE RepairQuestion(question.instruction, RepairContent(statement, <<>>, <<>>),
                            detection[1].type)

\* repair_file: the payload the file holds afterwards and the value returned
repair_file(data) ==
    LET questions == [i \in 1..Len(data.questions) |-> Repaired(data.questions[i])]
        changed == questions # data.questions
    IN  IF ~changed THEN [data |-> data, changed |-> FALSE]
        ELSE [data |-> Payload(questions,
                               IF data.metadata = <<>> THEN <<>>
                               ELSE <<[questionTypes |-> _normalize_question_types(questions)]>>),
              changed |-> TRUE]

\* a JSON file of the directory
LoadPayload(data) ==
    /\ pc = "idle"
    /\ pc' = "payload"
    /\ payloadFile' = <<data>>
    /\ UNCHANGED <<repairChanged, repairs, pipelineVars, groupVars, domVars, runnerVars, sweepVars,
                   exit_code, scanVars, serializeVars, passageVars>>

\* repair_file(path)
RepairFile ==
    /\ pc = "payload"
    /\ repairs < MaxRuns
    /\ payloadFile' = <<repair_file(payloadFile[1]).data>>
    /\ repairChanged' = Append(repairChanged, repair_file(payloadFile[1]).changed)
    /\ repairs' = repairs + 1
    /\ UNCHANGED <<pc, pipelineVars, groupVars, domVars, runnerVars, sweepVars, exit_code,
                   scanVars, serializeVars, passageVars>>

\* questions: every instruction with a statement that is absent, blank or
\* in need of stripping; the options of every kind under an instruction
\* that names no tokens
QuestionTypeNames == {"true-false-ng", "yes-no-ng", "multiple-choice"}
RepairQuestions ==
    {RepairQuestion(instruction, RepairContent(statement, <<>>, <<>>), type) :
        instruction \in {I_TFNG, I_YNNG, I_TWO},
        statement \in {<<>>, <<<<" ">>>>, <<<<" ", "s">>>>, <<<<"s">>>>},
        type \in {"true-false-ng", "multiple-choice"}}
    \cup {RepairQuestion(I_TWO, RepairContent(<<>>, questionText, <<options>>), "multiple-choice") :
            questionText \in {<<>>, <<<<"q">>>>},
            options \in {OptionsTFNG, OptionsYNNG, OptionsABC}}
Payloads ==
    {Payload(questions, metadata) :
        questions \in UNION {[1..n -> RepairQuestions] : n \in 0..MaxPayload},
        metadata \in {<<>>, <<[questionTypes |-> <<"multiple-choice">>]>>}}

NextRepair ==
    \/ pc = "idle" /\ \E data \in Payloads : LoadPayload(data)
    \/ RepairFile
SpecRepair == Init /\ [][NextRepair]_vars

(***************************************************************************)
(* Properties                                                              *)
(***************************************************************************)
Numbers(e) == [i \in 1..Len(e.questions) |-> e.questions[i].questionNumber]
Types(e) == [i \in 1..Len(e.questions) |-> e.questions[i].type]
FirstIndex(xs, x) == CHOOSE i \in 1..Len(xs) : xs[i] = x /\ \A j \in 1..(i - 1) : xs[j] # x

\* d lists the members of xs once each, in the order of their first occurrence
IsFirstSeenDedup(d, xs) ==
    /\ Range(d) = Range(xs)
    /\ \A i, j \in 1..Len(d) : i < j => d[i] # d[j] /\ FirstIndex(xs, d[i]) < FirstIndex(xs, d[j])

IdWellFormed(id) == Len(id) = 4 /\ id[1] = "e" /\ \A i \in 2..4 : IsDigit(id[i])
CountHolds(e) == e.metadata.totalQuestions = Len(e.questions)
TypeListHolds(e) == IsFirstSeenDedup(e.metadata.questionTypes, Types(e))
\* the number list as it stands is a run of consecutive integers
RunInListOrder(ns) == ns # <<>> /\ \A i \in 1..(Len(ns) - 1) : ns[i + 1] = ns[i] + 1
\* the numbers, once sorted, are a run of consecutive integers without duplicates
RunOnceSorted(ns) ==
    /\ ns # <<>>
    /\ Cardinality(Range(ns)) = Len(ns)
    /\ \E lo \in Range(ns) : Range(ns) = lo..(lo + Len(ns) - 1)
Largest(ns) == CHOOSE n \in Range(ns) : \A m \in Range(ns) : m <= n
Ceiling(d) == CASE d = "P1" -> 14 [] d = "P2" -> 27 [] d = "P3" -> 40
Offset(d) == CASE d = "P1" -> 1 [] d = "P2" -> 14 [] d = "P3" -> 27

\* C1: every Exam returned by parse_exam or load_exam_from_json has
\* totalQuestions equal to the number of questions and questionTypes equal to
\* the first-seen-order de-duplicated type list, and validate_consistency
\* raises for an Exam in which either equality fails.
C1_CountAndTypeList ==
    /\ pc \in {"parsed", "loaded", "reloaded"} /\ res = "ok"
         => CountHolds(exam) /\ TypeListHolds(exam)
    /\ pc = "validated" /\ ~(CountHolds(exam) /\ TypeListHolds(exam)) => res = "ValueError"
C1_Witness ==
    /\ pc = "parsed" /\ res = "ok"
    /\ Len(exam.questions) = 2 /\ Len(exam.metadata.questionTypes) = 2

\* C2 (as claimed): validate_consistency accepts an Exam, its other invariants
\* holding, whose numbers once sorted are a duplicate-free run of consecutive
\* integers, whatever the order of the question list, and rejects an Exam
\* whose sorted numbers have a gap or a duplicate or whose list is empty.
C2_ContiguityOnSortedNumbers ==
    pc = "validated" /\ IdWellFormed(exam.id) /\ CountHolds(exam) /\ TypeListHolds(exam)
    => IF RunOnceSorted(Numbers(exam))
       THEN Largest(Numbers(exam)) <= Ceiling(exam.metadata.difficulty) => res = "ok"
       ELSE res = "ValueError"

\* C3: among Exams that satisfy the id, count, type-list and contiguity
\* invariants, validate_consistency raises exactly when the last question
\* number exceeds the ceiling of the difficulty; a first number other than the
\* conventional offset emits a warning and does not by itself cause a raise.
C3_CeilingFatalOffsetWarns ==
    pc = "validated" /\ IdWellFormed(exam.id) /\ CountHolds(exam) /\ TypeListHolds(exam)
        /\ RunInListOrder(Numbers(exam))
    => /\ res = "ValueError" <=> Numbers(exam)[Len(exam.questions)] > Ceiling(exam.metadata.difficulty)
       /\ res \in {"ok", "ValueError"}
       /\ warned <=> Numbers(exam)[1] # Offset(exam.metadata.difficulty)
C3_Witness ==
    /\ pc = "validated" /\ IdWellFormed(exam.id) /\ CountHolds(exam) /\ TypeListHolds(exam)
    /\ RunInListOrder(Numbers(exam))
    /\ Numbers(exam)[1] # Offset(exam.metadata.difficulty)
    /\ Numbers(exam)[Len(exam.questions)] = Ceiling(exam.metadata.difficulty)
    /\ warned /\ res = "ok"

RecognisedNames == {"correctanswers", "answers", "answerkey", "solutions"}
\* C4 (as claimed): for page source with no object literal assigned to a
\* recognised name, answer-key extraction raises a parse error instead of
\* yielding an empty mapping, in extract_answer_data and in the answer-key
\* step of parse_exam, so that such a file never produces an Exam.
C4_MissingAnswerKeyRaises ==
    /\ pc = "extracted"
         /\ (\A i \in 1..Len(script) :
                ~(script[i].keyword \in {"const", "let", "var"}
                  /\ LowerName(script[i].name) \in RecognisedNames))
         => extracted = [error |-> "ParseError"]
    /\ pc = "parsed"
         /\ (htmlFile.decl = <<>> \/ LowerName(htmlFile.decl[1].name) \notin RecognisedNames)
         => res # "ok" /\ exam = NoExam

BooleanTypes == {"TRUE_FALSE_NG", "YES_NO_NG"}
ItemNumbered(page, n) == CHOOSE i \in 1..Len(page.right[1].items) : page.right[1].items[i].number = <<n>>
\* C5 (as claimed): every question whose type _parse_choice_group infers as
\* true-false-ng or yes-no-ng is emitted with content exactly
\* {"statement": prompt text with the leading number stripped}, without
\* questionText and options, one question per item.
C5_BooleanStatementContent ==
    pc = "parsed" /\ res = "ok"
    => \A i \in 1..Len(exam.questions) :
           exam.questions[i].type \in BooleanTypes
           => exam.questions[i].content =
                [statement |-> _extract_question_prompt(
                    htmlFile.right[1].items[ItemNumbered(htmlFile, exam.questions[i].questionNumber)])]

IsBooleanPayload(q) == q.type \in {"true-false-ng", "yes-no-ng"}
HtmlPayload(page) == exam_to_payload(parse_exam(page).exam)
\* C6 (as claimed): audit_exam_pair raises AuditError for a persisted payload
\* in which a boolean question has questionText and options, and returns
\* without raising when the boolean questions are statement-only and the rest
\* of the payload matches the HTML.
C6_AuditEnforcesBooleanShape ==
    pc = "audited" /\ (\E i \in 1..Len(jsonFile.questions) : IsBooleanPayload(jsonFile.questions[i]))
    => /\ (\E i \in 1..Len(jsonFile.questions) :
              IsBooleanPayload(jsonFile.questions[i]) /\ "options" \in DOMAIN jsonFile.questions[i].content)
          => res = "AuditError"
       /\ (jsonFile = [HtmlPayload(htmlFile) EXCEPT !.questions =
                          [i \in 1..Len(HtmlPayload(htmlFile).questions) |->
                              StatementShape(HtmlPayload(htmlFile).questions[i])]])
          => res = "ok"

AnswerBlank(a) ==
    IF IsStr(a) THEN Strip(a.text) = <<>>
    ELSE a.list = <<>> \/ \E j \in 1..Len(a.list) : Strip(a.list[j].text) = <<>>
NoBlankAnswer(payload) == \A i \in 1..Len(payload.questions) : ~AnswerBlank(payload.questions[i].answer)

\* C7 (as claimed): for every Exam that passes validate_consistency, writing
\* exam_to_payload(exam) and re-loading it with load_exam_from_json succeeds
\* and the payload of the reloaded Exam equals the original payload.
C7_RoundTripOfEveryValidExam ==
    pc = "reloaded" => res = "ok" /\ exam_to_payload(exam) = jsonFile
\* C7 (amended): the round trip succeeds and reproduces the payload for every
\* Exam that passes validate_consistency and has no blank answer; an Exam with
\* a blank answer fails to re-load with AuditError.
C7_RoundTripWithoutBlankAnswers ==
    pc = "reloaded"
    => IF NoBlankAnswer(jsonFile)
       THEN res = "ok" /\ exam_to_payload(exam) = jsonFile
       ELSE res = "AuditError"
C7_Witness ==
    /\ pc = "reloaded" /\ res = "ok"
    /\ \E i \in 1..Len(jsonFile.questions) :
           /\ IsList(jsonFile.questions[i].answer)
           /\ "explanation" \in DOMAIN jsonFile.questions[i]
    /\ \E i \in 1..Len(jsonFile.questions) : "statement" \in DOMAIN jsonFile.questions[i].content

\* C8: when the HTML-derived Exam and the JSON-loaded Exam have the same id,
\* both pass validation and neither has a blank answer, audit_exam_pair
\* returns silently if their payloads are equal and otherwise raises
\* AuditError with a diff that shows removed or added lines.
C8_AuditComparesPayloads ==
    pc = "audited" /\ parse_exam(htmlFile).error = "" /\ load_exam_from_json(jsonFile).error = ""
        /\ jsonFile.id = HtmlPayload(htmlFile).id /\ NoBlankAnswer(HtmlPayload(htmlFile))
    => IF jsonFile = HtmlPayload(htmlFile)
       THEN res = "ok" /\ diff = NoDiff
       ELSE /\ res = "AuditError"
            /\ \E i \in 1..Len(diff) : DOMAIN diff[i] \in {{"minus"}, {"plus"}}
C8_Witness ==
    /\ pc = "audited" /\ res = "AuditError"
    /\ parse_exam(htmlFile).error = ""
    /\ jsonFile # HtmlPayload(htmlFile)
    /\ jsonFile = [HtmlPayload(htmlFile) EXCEPT !.questions =
                      [i \in 1..Len(HtmlPayload(htmlFile).questions) |->
                          OptionsSwapped(HtmlPayload(htmlFile).questions[i])]]
    /\ \E i \in 1..Len(diff) : DOMAIN diff[i] = {"minus"}

AnswerTokens == {T_TRUE, T_FALSE, T_NOT_GIVEN, T_YES, T_NO}
\* the answer the claim expects for a string written s (surrounding white
\* space does not count)
NormalisedString(s) ==
    LET t == Strip(s)
    IN  IF Upper(t) \in AnswerTokens THEN Upper(t)
        ELSE IF Len(t) = 1 /\ IsLetter(t[1]) THEN Upper(t)
        ELSE Lower(t)
AnswerObject(src) == (CHOOSE i \in 1..Len(src) :
                        /\ src[i].keyword \in {"const", "let", "var"}
                        /\ LowerName(src[i].name) \in RecognisedNames
                        /\ \A j \in 1..(i - 1) : ~(src[j].keyword \in {"const", "let", "var"}
                                                   /\ LowerName(src[j].name) \in RecognisedNames))
HasAnswerObject(src) ==
    \E i \in 1..Len(src) : src[i].keyword \in {"const", "let", "var"}
                           /\ LowerName(src[i].name) \in RecognisedNames

IsRomanToken(t) == t # <<>> /\ \A i \in 1..Len(t) : LowerChar(t[i]) \in {"i", "v", "x", "l", "c", "d", "m"}
StringEntries(src) ==
    {i \in 1..Len(src[AnswerObject(src)].entries) : IsStr(src[AnswerObject(src)].entries[i].value)}
\* C10 (as claimed): every answer token made only of roman-numeral letters,
\* of any length from one letter up, is normalised to lower case.
C10_RomanTokensLowerCase ==
    pc = "extracted" /\ HasAnswerObject(script)
    => \A i \in StringEntries(script) :
          LET e == script[AnswerObject(script)].entries[i]
          IN  IsRomanToken(Strip(e.value.text))
              => extracted.result[e.key].answer = Str(Lower(Strip(e.value.text)))
\* C10 (amended): an answer token made only of roman-numeral letters is
\* normalised to lower case when it has two letters or more; a token of one
\* roman-numeral letter is normalised to upper case, like any single letter.
C10_RomanTokensOfTwoLettersLowerCase ==
    pc = "extracted" /\ HasAnswerObject(script)
    => \A i \in StringEntries(script) :
          LET e == script[AnswerObject(script)].entries[i]
              t == Strip(e.value.text)
          IN  IsRomanToken(t)
              => extracted.result[e.key].answer = Str(IF Len(t) >= 2 THEN Lower(t) ELSE Upper(t))
C10_Witness ==
    /\ pc = "extracted" /\ HasAnswerObject(script)
    /\ \E i \in StringEntries(script) :
          LET e == script[AnswerObject(script)].entries[i]
          IN  /\ e.value.text = <<"X","I","V">>
              /\ extracted.result[e.key].answer = Str(<<"x","i","v">>)

\* C11: answer normalisation is idempotent: normalising an answer that
\* _normalize_answer returned (a string, a list or a string-keyed map, nested
\* or not) gives that answer back.
C11_NormalisationIdempotent ==
    pc = "extracted" /\ "result" \in DOMAIN extracted
    => \A k \in DOMAIN extracted.result :
          _normalize_answer(extracted.result[k].answer) = extracted.result[k].answer
C11_Witness ==
    /\ pc = "extracted" /\ "result" \in DOMAIN extracted
    /\ "q5" \in DOMAIN extracted.result
    /\ extracted.result["q5"].answer =
          [dict |-> <<Entry("n", [dict |-> <<Entry("a", Str(<<"B">>))>>])>>]
    /\ script[1].entries[2].value = [dict |-> <<Entry("n", [dict |-> <<Entry("a", Str(<<" ","b"," ">>))>>])>>]

\* the open elements above the root
OpenTags(b, st, ns) == [index \in 1..(Len(st) - 1) |-> ns[st[index + 1]].tag]
\* stack st with everything from the nearest open element tagged tag removed;
\* st itself when no open element has the tag
PoppedTo(st, ns, tag) ==
    IF \E index \in 2..Len(st) : ns[st[index]].tag = tag
    THEN SubSeq(st, 1, (CHOOSE index \in 2..Len(st) :
                           /\ ns[st[index]].tag = tag
                           /\ \A later \in (index + 1)..Len(st) : ns[st[later]].tag # tag) - 1)
    ELSE st
\* C12 (as claimed): in both builders an end tag pops the open-element stack
\* up to and including the nearest open element with that tag, and an end
\* tag that matches no open element leaves the stack exactly as it was.
C12_EndTagPopsToNearestMatch ==
    [][\A tag \in EventTags :
          event' = Append(event, EndEvent(tag)) => stack' = PoppedTo(stack, nodes, tag)]_vars

VoidTags == {"br", "img", "input", "meta", "link", "hr", "source"}
\* C13 (as claimed): after any sequence of events no element tagged br, img,
\* input, meta, link, hr or source is on the open-element stack of either
\* builder, and no node is a child of such an element.
C13_NoVoidElementOpen ==
    pc = "feeding"
    => /\ \A index \in 2..Len(stack) : nodes[stack[index]].tag \notin VoidTags
       /\ \A id \in 1..Len(nodes) :
             nodes[id].parent # RootId => nodes[nodes[id].parent].tag \notin VoidTags

\* the first marker a group holds, in the priority order of the claim
FirstMarker(g) ==
    IF "matching_table" \in DOMAIN g THEN "matching_table"
    ELSE IF "headings_pool" \in DOMAIN g THEN "headings_pool"
    ELSE IF "match_items" \in DOMAIN g THEN "match_items"
    ELSE IF "summary_completion" \in DOMAIN g THEN "summary_completion"
    ELSE "choice"
\* the numbers written in a container, in order
WrittenNumbers(entries) ==
    LET present == SelectSeq(entries, LAMBDA e : e # <<>>)
    IN  [i \in 1..Len(present) |-> present[i][1]]
\* the question numbers the strategy of a marker finds in its own container
OwnNumbers(g, marker) ==
    CASE marker = "matching_table" ->
           IF g.matching_table.tbody THEN WrittenNumbers(g.matching_table.rows) ELSE <<>>
      [] marker = "headings_pool" ->
           IF g.headings_pool.range = <<>> THEN <<2, 9>> ELSE <<2>>
      [] marker = "match_items" -> WrittenNumbers(g.match_items)
      [] marker = "summary_completion" -> WrittenNumbers(g.summary_completion)
      [] OTHER -> WrittenNumbers([i \in 1..Len(g.items) |-> g.items[i].number])
\* the question types a strategy emits
OwnTypes(marker) ==
    CASE marker = "matching_table" ->
           {"HEADING_MATCHING", "PARAGRAPH_MATCHING", "CLASSIFICATION", "FEATURE_MATCHING"}
      [] marker = "headings_pool" -> {"HEADING_MATCHING"}
      [] marker = "match_items" -> {"FEATURE_MATCHING"}
      [] marker = "summary_completion" -> {"SUMMARY_COMPLETION"}
      [] OTHER -> {"TRUE_FALSE_NG", "YES_NO_NG", "MULTIPLE_CHOICE_SINGLE", "MULTIPLE_CHOICE_MULTIPLE"}
\* C14: _parse_group returns the questions of exactly one strategy, the one
\* of the first marker present in the order matching-table, headings-pool,
\* match-question-item, summary-completion, otherwise choice-style: the
\* questions are those of that marker's container, of that strategy's types,
\* and the containers of the other markers contribute none.
C14_OneStrategyByPriority ==
    pc = "routed"
    => /\ [i \in 1..Len(groupQuestions) |-> groupQuestions[i].questionNumber]
            = OwnNumbers(groupNode, FirstMarker(groupNode))
       /\ \A i \in 1..Len(groupQuestions) : groupQuestions[i].type \in OwnTypes(FirstMarker(groupNode))
C14_Witness ==
    /\ pc = "routed"
    /\ {"headings_pool", "match_items", "summary_completion"} \subseteq DOMAIN groupNode
    /\ "matching_table" \notin DOMAIN groupNode
    /\ groupNode.match_items # <<>> /\ groupNode.summary_completion # <<>> /\ groupNode.items # <<>>
    /\ Len(groupQuestions) = 2
    /\ groupQuestions[1].type = "HEADING_MATCHING"

RunningTasks == {t \in DOMAIN worker : worker[t] = "running"}

\* C15: while the batches are processed, the commands running at one moment
\* never outnumber the configured concurrency, and the concurrency in force
\* never exceeds the batch size.
C15_ConcurrencyBounded ==
    pc = "batches" =>
        /\ Cardinality(RunningTasks) <= config.concurrency
        /\ config.concurrency <= config.batch_size
\* two commands run under concurrency 2 while a third worker waits
C15_Witness ==
    /\ pc = "batches"
    /\ config.concurrency = 2
    /\ Cardinality(RunningTasks) = 2
    /\ \E t \in DOMAIN worker : worker[t] = "waiting"

\* the executions of task t that have ended
EndedExecutions(t) == IF worker[t] = "running" THEN attempts[t] - 1 ELSE attempts[t]
Settled(t) == worker[t] \in {"succeeded", "failed"}
ExecutionsBounded ==
    pc \in {"batches", "finished"} =>
        /\ \A t \in Tasks :
              /\ attempts[t] <= config.max_retries + 1
              /\ worker[t] = "failed" <=> t \in tracker.failures
              /\ t \in tracker.failures =>
                    /\ attempts[t] = config.max_retries + 1
                    /\ \A k \in 1..attempts[t] : ~Succeeds(t, k)
              /\ \A k \in 1..EndedExecutions(t) :
                    Succeeds(t, k) => worker[t] = "succeeded" /\ attempts[t] = k
        /\ tracker.completed = Cardinality({t \in Tasks : Settled(t)})
NoExecutionOnceSettled ==
    \A t \in DOMAIN worker :
        Settled(t) => (t \in DOMAIN worker' /\ worker'[t] = worker[t] /\ attempts'[t] = attempts[t])

\* C16: a task is executed at most max_retries + 1 times; it is recorded as
\* failed only after exactly max_retries + 1 executions that all failed; it
\* is marked done with the first execution that succeeds; and once it is
\* marked succeeded or failed it is never executed again.
C16_RetryBudget == []ExecutionsBounded /\ [][NoExecutionOnceSettled]_vars
\* under max_retries = 2 one task has failed for good with its third
\* execution and another one has succeeded with its second
C16_Witness ==
    /\ pc = "batches"
    /\ config.max_retries = 2
    /\ \E t \in Tasks, u \in Tasks :
          /\ worker[t] = "failed" /\ attempts[t] = 3
          /\ worker[u] = "succeeded" /\ attempts[u] = 2

\* the tasks whose first max_retries + 1 executions all fail
DoomedTasks == {t \in Tasks : \A k \in 1..(config.max_retries + 1) : ~Succeeds(t, k)}

\* C17: when main returns after the last batch, it returns 0 exactly when no
\* task is recorded as failed; a task is recorded as failed exactly when all
\* of its max_retries + 1 executions failed, and then the return is not 0.
C17_ExitCodeReflectsFailures ==
    pc = "finished" =>
        /\ exit_code = <<0>> <=> tracker.failures = {}
        /\ tracker.failures = DoomedTasks
        /\ DoomedTasks # {} => exit_code # <<0>>
\* main has returned 2: one task failed in all its executions while another
\* one succeeded after a failed execution
C17_Witness ==
    /\ pc = "finished"
    /\ exit_code = <<2>>
    /\ \E t \in Tasks, u \in Tasks :
          /\ t \in tracker.failures
          /\ u \notin tracker.failures /\ attempts[u] > 1

\* the executions a task with these results gets under a retry limit: up
\* to the first one that succeeds, max_retries + 1 when none does
FinalAttempts(results, max_retries) ==
    LET good == {k \in 1..(max_retries + 1) : k <= Len(results) /\ results[k]}
    IN  IF good = {} THEN max_retries + 1 ELSE CHOOSE k \in good : \A j \in good : k <= j

\* C18: with the result of every execution fixed, the attempts of every
\* task, the set of failed tasks and the return of main are fixed by these
\* results and the retry limit alone: they are the same under every
\* interleaving of the workers and every concurrency and batch size.
C18_OutcomeDeterminesResult ==
    pc = "finished" =>
        /\ attempts = [t \in Tasks |-> FinalAttempts(outcomes[t], config.max_retries)]
        /\ tracker.failures =
              {t \in Tasks : ~Succeeds(t, FinalAttempts(outcomes[t], config.max_retries))}
        /\ tracker.completed = Len(outcomes)
        /\ exit_code =
              IF \E t \in Tasks : ~Succeeds(t, FinalAttempts(outcomes[t], config.max_retries))
              THEN <<2>> ELSE <<0>>
\* a workload of two batches has been run under concurrency 2, with a task
\* that succeeded on its retry and a task that failed for good
C18_Witness ==
    /\ pc = "finished"
    /\ Len(outcomes) > config.batch_size
    /\ config.concurrency = 2
    /\ \E t \in Tasks : worker[t] = "succeeded" /\ attempts[t] = 2
    /\ \E t \in Tasks : worker[t] = "failed"

\* the retry count the tracker holds for task t
RecordedRetries(t) == IF t \in DOMAIN tracker.retries THEN tracker.retries[t] ELSE 0

\* C19: when main returns, the retry count recorded for every task is the
\* number of retries made for it, its executions less the first one, for
\* the tasks that failed for good and for those that succeeded on a retry.
C19_RetryCountsAccurate ==
    pc = "finished" => \A t \in Tasks : RecordedRetries(t) = attempts[t] - 1

Paths == [i \in DOMAIN html_files |-> html_files[i].path]
EveryFileOnceInOrder ==
    /\ processed = Paths
    /\ \A i, j \in DOMAIN processed : i < j => processed[i] < processed[j]
RaisingRecorded == Range(failures) = {html_files[i].path : i \in {k \in DOMAIN html_files : html_files[k].raises}}

\* C20 as stated: when a sweep has exited, every collected file was
\* processed exactly once in sorted order, the files that raised are the
\* recorded failures, and the exit status is non-zero exactly when a failure
\* was recorded.
C20_SweepExitIffFailure ==
    pc = "exited" =>
        /\ EveryFileOnceInOrder
        /\ RaisingRecorded
        /\ exit_code # <<0>> <=> failures # <<>>

\* C20, amended: as above when at least one file was collected; when none
\* was, the sweep exits non-zero with nothing processed and no failure
\* recorded.
C20_SweepExitIffFailureWhenFilesFound ==
    pc = "exited" =>
        /\ EveryFileOnceInOrder
        /\ RaisingRecorded
        /\ html_files # <<>> => (exit_code # <<0>> <=> failures # <<>>)
        /\ html_files = <<>> => (exit_code # <<0>> /\ failures = <<>> /\ processed = <<>>)
\* a sweep over three files has exited non-zero: the first file raised and
\* the two after it were still processed, without raising
C20_Witness ==
    /\ pc = "exited"
    /\ Len(html_files) = 3
    /\ html_files[1].raises /\ ~html_files[2].raises /\ ~html_files[3].raises
    /\ processed = <<1, 2, 3>>
    /\ failures = <<1>>
    /\ exit_code = <<1>>

\* Reference reading of a script text, one character at a time: the mode
\* is "code", a quote character inside a string of that quote, "line"
\* inside a // comment or "block" inside a /* */ comment.  ClosingBrace is
\* the position of the '}' that closes the brace opened at position 1, 0
\* when the end of the text is reached first.
RECURSIVE ClosingBraceFrom(_, _, _, _)
ClosingBraceFrom(text, index, mode, depth) ==
    IF index > Len(text) THEN 0
    ELSE LET c == text[index]
         IN  CASE mode = "code" ->
                    IF c = "{" THEN ClosingBraceFrom(text, index + 1, "code", depth + 1)
                    ELSE IF c = "}"
                    THEN IF depth = 1 THEN index
                         ELSE ClosingBraceFrom(text, index + 1, "code", depth - 1)
                    ELSE IF c \in {"'", "\""} THEN ClosingBraceFrom(text, index + 1, c, depth)
                    ELSE IF StartsWith2(text, index, "/", "/")
                    THEN ClosingBraceFrom(text, index + 2, "line", depth)
                    ELSE IF StartsWith2(text, index, "/", "*")
                    THEN ClosingBraceFrom(text, index + 2, "block", depth)
                    ELSE ClosingBraceFrom(text, index + 1, "code", depth)
               [] mode = "line" ->
                    ClosingBraceFrom(text, index + 1, IF c = NEWLINE THEN "code" ELSE "line", depth)
               [] mode = "block" ->
                    IF StartsWith2(text, index, "*", "/")
                    THEN ClosingBraceFrom(text, index + 2, "code", depth)
                    ELSE ClosingBraceFrom(text, index + 1, "block", depth)
               [] OTHER ->
                    IF c = BACKSLASH THEN ClosingBraceFrom(text, index + 2, mode, depth)
                    ELSE IF c = mode THEN ClosingBraceFrom(text, index + 1, "code", depth)
                    ELSE ClosingBraceFrom(text, index + 1, mode, depth)
ClosingBrace(text) == ClosingBraceFrom(text, 1, "code", 0)

\* C21: the block extracted at an opening brace ends at the '}' that closes
\* it, braces inside quoted strings (with backslash escapes) and inside //
\* and /* */ comments not counted; when the text ends before that brace,
\* with the brace, a string or a block comment still open, ParseError is
\* raised.
C21_BracedBlockEndsAtClosingBrace ==
    pc = "scanned" =>
        jsResult = IF ClosingBrace(jsText) = 0 THEN ParseError
                   ELSE [block |-> SubSeq(jsText, 1, ClosingBrace(jsText))]
\* a block was extracted whose closing brace comes after a brace inside a
\* block comment
C21_Witness ==
    /\ pc = "scanned"
    /\ jsText = <<"{", "/", "*", "}", "*", "/", "}">>
    /\ jsResult = [block |-> jsText]

\* the characters a JS string literal body stands for: a backslash with the
\* character after it stands for one character
RECURSIVE Decoded(_)
Decoded(body) ==
    IF body = <<>> THEN <<>>
    ELSE IF Head(body) = BACKSLASH /\ Len(body) >= 2
    THEN <<IF body[2] = "n" THEN NEWLINE ELSE body[2]>> \o Decoded(SubSeq(body, 3, Len(body)))
    ELSE <<Head(body)>> \o Decoded(Tail(body))
\* the body between the quotes of the literal {a:'...'}
LiteralBody(text) == SubSeq(text, 5, Len(text) - 2)

\* C22: the reader returns the string of an object literal {a:'...'} or
\* {a:"..."} with exactly the characters written between its quotes, the
\* escapes decoded, whatever the string holds of '/', '*', braces, quotes
\* and backslashes.
C22_StringsReadAsWritten ==
    pc = "read" => jsResult = [dict |-> <<Entry(<<"a">>, Str(Decoded(LiteralBody(jsText))))>>]

\* the page opens with the well-formed answer object {a:'b'}
AnswerObjectWellFormed ==
    Len(jsText) >= Len(AnswerObjectText) /\ SubSeq(jsText, 1, Len(AnswerObjectText)) = AnswerObjectText
\* the text of the first hints declaration, from its brace on
FirstHintsText ==
    LET at == {i \in 1..Len(jsText) : i > 1 /\ jsText[i] = "{" /\ jsText[i - 1] = H_HINTS}
        first == CHOOSE i \in at : \A j \in at : i <= j
    IN  IF at = {} THEN <<>> ELSE SubSeq(jsText, first, Len(jsText))
\* the first hints block cannot be parsed: its closing brace is never found
\* or the reader raises on it
FirstHintsMalformed ==
    /\ FirstHintsText # <<>>
    /\ \/ ClosingBrace(FirstHintsText) = 0
       \/ ObjectReaderParse(SubSeq(FirstHintsText, 1, ClosingBrace(FirstHintsText))) = ParseError
OnlyOneHintsObject == Len(SelectSeq(jsText, LAMBDA c : c = H_HINTS)) <= 1

\* C23: with a well-formed answer object, extract_answer_data does not fail
\* and returns the answers of that object whatever the hints objects hold;
\* when the only hints object cannot be parsed, every answer has no
\* explanation.
C23_MalformedExplanationSkipped ==
    (pc = "answers_extracted" /\ AnswerObjectWellFormed) =>
        /\ jsResult # ParseError
        /\ DOMAIN jsResult.result = {<<"a">>}
        /\ jsResult.result[<<"a">>].answer = Str(<<"B">>)
        /\ (FirstHintsMalformed /\ OnlyOneHintsObject) => jsResult.result[<<"a">>].explanation = <<>>

AnswerKeyOf(page) == _extract_answer_key(page.decl)

\* C24 as stated: a question whose key is absent from the answer key gets
\* the empty string and parse_exam does not raise for it; a question whose
\* key is present gets exactly the value stored under the key.
C24_AnswerIsStoredValue ==
    pc = "parsed" /\ res = "ok" =>
        \A i \in 1..Len(exam.questions) :
            LET number == exam.questions[i].questionNumber
            IN  exam.questions[i].answer =
                    IF number \in DOMAIN AnswerKeyOf(htmlFile) THEN AnswerKeyOf(htmlFile)[number]
                    ELSE Str(<<>>)

\* C24, amended: a question whose key is absent, or present with an empty
\* value (empty string or empty list), gets the empty string; a question
\* whose key is present with a non-empty value gets exactly that value.
C24_AnswerIsStoredValueUnlessEmpty ==
    pc = "parsed" /\ res = "ok" =>
        \A i \in 1..Len(exam.questions) :
            LET number == exam.questions[i].questionNumber
                present == number \in DOMAIN AnswerKeyOf(htmlFile)
            IN  exam.questions[i].answer =
                    IF present /\ AnswerKeyOf(htmlFile)[number] \notin {Str(<<>>), List(<<>>)}
                    THEN AnswerKeyOf(htmlFile)[number]
                    ELSE Str(<<>>)
\* an Exam was parsed from a page whose key stores [] for question 1 and a
\* list of two letters for question 2: the first answer is '', the second
\* the stored list
C24_Witness ==
    /\ pc = "parsed" /\ res = "ok"
    /\ AnswerKeyOf(htmlFile) = <<List(<<>>), List(<<Str(<<"A">>), Str(<<"C">>)>>)>>
    /\ \E i, j \in 1..Len(exam.questions) :
          /\ exam.questions[i].questionNumber = 1 /\ exam.questions[i].answer = Str(<<>>)
          /\ exam.questions[j].questionNumber = 2
          /\ exam.questions[j].answer = List(<<Str(<<"A">>), Str(<<"C">>)>>)

IsExamFile(name) == name # LogName
\* the targets of the exams of the last call
TargetsOfCall(call) ==
    {ExamFileName(_extract_exam_id(call.exams[i])[1]) : i \in 1..Len(call.exams)}
SkipCallMade == serializeRuns' = serializeRuns + 1 /\ serializeCall'.overwrite = "skip"
ExistingExamFilesKept ==
    \A name \in DOMAIN output_dir :
        IsExamFile(name) => name \in DOMAIN output_dir' /\ output_dir'[name] = output_dir[name]
SkippedAndWrittenCounted ==
    "error" \notin DOMAIN serialization' =>
        LET fresh == TargetsOfCall(serializeCall') \ DOMAIN output_dir
        IN  /\ serialization'.written = Cardinality(fresh)
            /\ serialization'.skipped = Len(serializeCall'.exams) - Cardinality(fresh)
            /\ {name \in DOMAIN output_dir' : IsExamFile(name)}
                   = {name \in DOMAIN output_dir : IsExamFile(name)} \cup fresh

EveryExistingFileKept ==
    \A name \in DOMAIN output_dir :
        name \in DOMAIN output_dir' /\ output_dir'[name] = output_dir[name]

\* C25: a call of serialize_exams with overwrite = "skip" modifies no file
\* that exists in the output directory; the exams whose target e###.json
\* exists are counted as skipped and only the exams without an existing
\* target are written.
C25_SkipKeepsExistingFiles ==
    [][SkipCallMade => (EveryExistingFileKept /\ SkippedAndWrittenCounted)]_vars
\* C25, exam files only: a call with overwrite = "skip" leaves every
\* e###.json that exists with the content it had (serialization.log, which
\* lies in the same directory, is reopened for writing by every call).
C25_SkipKeepsExistingExamFiles ==
    [][SkipCallMade => (ExistingExamFilesKept /\ SkippedAndWrittenCounted)]_vars
\* a call with "skip" has kept e002.json as it was rewritten from outside,
\* counted that exam as skipped and written e005.json
C25_Witness ==
    /\ pc = "serialized"
    /\ serializeCall # <<>> /\ serializeCall.overwrite = "skip"
    /\ serialization = SerializationResult(2, 1, 1)
    /\ ExamFileNames \subseteq DOMAIN output_dir
    /\ output_dir[ExamFileName(<<"e", "0", "0", "2">>)] = EmptyObject
    /\ output_dir[ExamFileName(<<"e", "0", "0", "5">>)] = <<<<"e", "0", "0", "5">>, "B">>

IsTerminator(item) ==
    /\ IsElement(item)
    /\ \/ item.tag = "div" /\ item.id = "divider"
       \/ item.tag = "section" /\ item.id = "right"
       \/ item.tag = "div" /\ "practice-nav" \in item.class_list
\* the children after the title and before the first terminator
BeforeTerminator(contents) ==
    LET after == AfterTitle(contents)
        stops == {i \in 1..Len(after) : IsTerminator(after[i])}
    IN  SubSeq(after, 1, Len(after) - Cardinality({i \in 1..Len(after) : \E j \in stops : j <= i}))
\* the texts of the top-level p elements among them that follow an
\* empty-space block
RECURSIVE MaterialAfterMarker(_, _)
MaterialAfterMarker(items, marked) ==
    IF items = <<>> THEN <<>>
    ELSE LET item == Head(items)
         IN  IF IsElement(item) /\ _is_empty_space_marker(item) THEN MaterialAfterMarker(Tail(items), TRUE)
             ELSE (IF marked /\ IsElement(item) /\ item.tag = "p" /\ item.text # "" THEN <<item.text>> ELSE <<>>)
                  \o MaterialAfterMarker(Tail(items), marked)
RECURSIVE IsSubsequence(_, _)
IsSubsequence(s, t) ==
    IF s = <<>> THEN TRUE
    ELSE IF t = <<>> THEN FALSE
    ELSE IF Head(s) = Head(t) THEN IsSubsequence(Tail(s), Tail(t))
    ELSE IsSubsequence(s, Tail(t))
ParagraphContents == [i \in 1..Len(passageParagraphs) |-> passageParagraphs[i].content]

\* C26: the paragraphs that follow an empty-space block at the top level of
\* the passage container, before a divider, the questions container or a
\* practice-nav block, appear in the paragraph list in source order.
C26_EmptySpaceSkipped ==
    pc = "passage_parsed" =>
        IsSubsequence(MaterialAfterMarker(BeforeTerminator(leftContents), FALSE), ParagraphContents)
\* the same for the parser of passage_parser.py alone
C26_EmptySpaceSkippedByPassageParser ==
    (pc = "passage_parsed" /\ passageParser = "passage_parser") =>
        IsSubsequence(MaterialAfterMarker(BeforeTerminator(leftContents), FALSE), ParagraphContents)

RunnerStarted == pc \in {"batches", "finished"}
RECURSIVE Flattened(_)
Flattened(lists) == IF lists = <<>> THEN <<>> ELSE Head(lists) \o Flattened(Tail(lists))
\* the batches are the consecutive slices of the task list, each of exactly
\* batch_size tasks except possibly the last, which is not empty
BatchesAreConsecutiveSlices ==
    RunnerStarted =>
        /\ Flattened(Batches) = [t \in Tasks |-> t]
        /\ \A b \in 1..Len(Batches) :
               /\ b < Len(Batches) => Len(Batches[b]) = config.batch_size
               /\ Len(Batches[b]) \in 1..config.batch_size
BatchOf(t) == CHOOSE b \in 1..Len(Batches) : t \in InBatch(b)
MarkedBy(wk, b) == \A t \in InBatch(b) : wk[t] \in {"succeeded", "failed"}
\* a command of task t starts in this step
CommandStarts(t) == attempts'[t] = attempts[t] + 1
NoStartBeforeEarlierBatchesMarked ==
    pc = "batches" =>
        \A t \in Tasks : CommandStarts(t) => \A b \in 1..(BatchOf(t) - 1) : MarkedBy(worker, b)

\* C27: the batches are the consecutive slices of the task list, each of
\* exactly batch_size tasks except possibly the last, which is non-empty;
\* no command of a task of a later batch starts before every task of the
\* earlier batches has been marked successful or finally failed.
C27_BatchesRunOneAfterAnother ==
    []BatchesAreConsecutiveSlices /\ [][NoStartBeforeEarlierBatchesMarked]_vars
\* a command of the second, shorter batch runs after the whole first batch
\* has been marked, one of its tasks as failed
C27_Witness ==
    /\ pc = "batches"
    /\ Len(Batches) = 2 /\ Len(Batches[2]) < config.batch_size
    /\ \E t \in InBatch(2) : worker[t] = "running"
    /\ MarkedBy(worker, 1)
    /\ \E t \in InBatch(1) : worker[t] = "failed"

\* a task that is marked stays as it was marked, and each marking counts
\* one more completed task
MarkedExactlyOnce ==
    pc = "batches" =>
        /\ \A t \in Tasks : worker[t] \in {"succeeded", "failed"} => worker'[t] = worker[t]
        /\ tracker'.completed =
               tracker.completed
               + Cardinality({t \in Tasks : /\ worker[t] \notin {"succeeded", "failed"}
                                            /\ worker'[t] \in {"succeeded", "failed"}})
CountsAddUpAtReturn ==
    pc = "finished" =>
        /\ \A t \in Tasks : worker[t] \in {"succeeded", "failed"}
        /\ tracker.completed = tracker.total
        /\ tracker.total = Len(outcomes)
        /\ summary(tracker).success = Cardinality({t \in Tasks : worker[t] = "succeeded"})
        /\ summary(tracker).failed = Cardinality({t \in Tasks : worker[t] = "failed"})
        /\ summary(tracker).success + summary(tracker).failed = tracker.total

\* C28: when every executed command terminates the batch run terminates;
\* every task is marked exactly once as successful or finally failed, and
\* when main returns completed equals the number of tasks and the reported
\* success count plus failure count equals that number.
C28_RunTerminates ==
    /\ <>(pc \in {"finished", "aborted"})
    /\ [][MarkedExactlyOnce]_vars
    /\ []CountsAddUpAtReturn
\* main has returned after two batches with every task counted, one of them
\* failed after a retry and one successful after a retry
C28_Witness ==
    /\ pc = "finished"
    /\ batch_index = 2
    /\ tracker.completed = tracker.total
    /\ summary(tracker).failed = 1
    /\ \E t \in tracker.failures : attempts[t] = 2
    /\ \E t \in Tasks : worker[t] = "succeeded" /\ attempts[t] = 2

\* the parent of node id; the contents of a node are the nodes with this
\* parent in the order of their creation
ParentOf(id) == nodes[id].parent
RECURSIVE DepthBelowRoot(_, _)
DepthBelowRoot(id, fuel) ==
    IF id = RootId THEN 0
    ELSE IF fuel = 0 THEN -1
    ELSE LET above == DepthBelowRoot(ParentOf(id), fuel - 1)
         IN  IF above = -1 THEN -1 ELSE above + 1
ReachableFromRoot(id) == DepthBelowRoot(id, Len(nodes)) # -1
\* an element that could be pushed is the only kind of parent
IsContainer(id) == id = RootId \/ (id \in 1..Len(nodes) /\ nodes[id].tag # TextTag)
StackWellFormed ==
    /\ stack # <<>>
    /\ stack[1] = RootId
    /\ \A index \in 2..Len(stack) :
          /\ stack[index] \in 1..Len(nodes)
          /\ ParentOf(stack[index]) = stack[index - 1]
TreeWellFormed ==
    \A id \in 1..Len(nodes) :
        /\ IsContainer(ParentOf(id))
        /\ ParentOf(id) < id
        /\ ReachableFromRoot(id)
\* a node made by an event is appended below the element that was on top of
\* the stack, after the nodes made before it, which stay where they are
AppendedInSourceOrder ==
    /\ Len(nodes') >= Len(nodes)
    /\ SubSeq(nodes', 1, Len(nodes)) = nodes
    /\ \A id \in (Len(nodes) + 1)..Len(nodes') : nodes'[id].parent = Top(stack)

\* C29: after any sequence of tag and text events the stack of open
\* elements is non-empty with the root at the bottom, each element on it is
\* a child of the element below it, and every node created so far hangs
\* below the root at one place, after the children created before it.
C29_StackAndTreeWellFormed ==
    [](pc = "feeding" => (StackWellFormed /\ TreeWellFormed)) /\ [][AppendedInSourceOrder]_vars
\* after an end tag without an open element and an end tag that matches
\* no open element, which pops the open div, only the root is on the stack
C29_Witness ==
    /\ pc = "feeding"
    /\ Len(event) = 3
    /\ event[1] = EndEvent("p")
    /\ event[2] = StartEvent("div")
    /\ event[3] = EndEvent("p")
    /\ nodes = <<Node("div", RootId)>>
    /\ builder = "MiniHTMLParser" /\ stack = <<RootId>>

RepairRuns == pc = "payload" /\ repairs' = repairs + 1
ChangedByRun == repairChanged'[Len(repairChanged')]
Detected(question) == _detect_boolean_spec(question.instruction, question.content) # <<>>
HasStatementText(question) == _normalize_statement(question.content) # <<>>
\* the question holds nothing but a stripped, non-blank statement and has
\* the type of the spec detected for the question it was
BooleanShape(before, after) ==
    /\ after.content.questionText = <<>> /\ after.content.options = <<>>
    /\ after.content.statement # <<>>
    /\ after.content.statement[1] # <<>>
    /\ Strip(after.content.statement[1]) = after.content.statement[1]
    /\ after.type = _detect_boolean_spec(before.instruction, before.content)[1].type
\* the de-duplicated types of the questions in the order they are first seen
RECURSIVE FirstSeen(_, _)
FirstSeen(types, seen) ==
    IF types = <<>> THEN <<>>
    ELSE IF Head(types) \in seen THEN FirstSeen(Tail(types), seen)
    ELSE <<Head(types)>> \o FirstSeen(Tail(types), seen \cup {Head(types)})
TypesOf(questions) == [i \in 1..Len(questions) |-> questions[i].type]
TypeListConsistent(data) ==
    data.metadata # <<>> => data.metadata[1].questionTypes = FirstSeen(TypesOf(data.questions), {})
SecondRunChangesNothing ==
    (repairs > 0 /\ repairChanged[Len(repairChanged)]) =>
        (payloadFile' = payloadFile /\ ~ChangedByRun)

\* C30: after a run of repair_file that changed a payload every question it
\* detected as boolean holds exactly a statement and has the matching
\* boolean type, and metadata.questionTypes lists the question types in
\* first-seen order without duplicates; a second run changes nothing and
\* returns False.
C30_RepairIdempotentAndConsistent ==
    [][RepairRuns =>
          /\ ChangedByRun =>
                /\ \A i \in 1..Len(payloadFile[1].questions) :
                      Detected(payloadFile[1].questions[i]) =>
                          BooleanShape(payloadFile[1].questions[i], payloadFile'[1].questions[i])
                /\ TypeListConsistent(payloadFile'[1])
          /\ SecondRunChangesNothing]_vars
\* C30 for the questions repair_file can repair: a question detected as
\* boolean that has a non-blank statement or questionText holds exactly the
\* statement and has the matching type after a run that changed the
\* payload, a detected question without one is left as it was; the type
\* list is consistent and a second run changes nothing and returns False.
C30_RepairIdempotentWhereStatementExists ==
    [][RepairRuns =>
          /\ ChangedByRun =>
                /\ \A i \in 1..Len(payloadFile[1].questions) :
                      LET before == payloadFile[1].questions[i]
                          after == payloadFile'[1].questions[i]
                      IN  /\ (Detected(before) /\ HasStatementText(before)) => BooleanShape(before, after)
                          /\ ~(Detected(before) /\ HasStatementText(before)) => after = before
                /\ TypeListConsistent(payloadFile'[1])
          /\ SecondRunChangesNothing]_vars
\* a first run has repaired one question and left a detected question with
\* a blank statement alone, a second run has returned False
C30_Witness ==
    /\ pc = "payload"
    /\ repairChanged = <<TRUE, FALSE>>
    /\ payloadFile[1].metadata = <<[questionTypes |-> <<"true-false-ng", "multiple-choice">>]>>
    /\ Len(payloadFile[1].questions) = 2
    /\ payloadFile[1].questions[1] =
           RepairQuestion(I_TFNG, RepairContent(<<<<"s">>>>, <<>>, <<>>), "true-false-ng")
    /\ payloadFile[1].questions[2] =
           RepairQuestion(I_YNNG, RepairContent(<<<<" ">>>>, <<>>, <<>>), "multiple-choice")
====
